---- MODULE Spec2Model ----
(***************************************************************************)
(* Model of the King lifecycle controller of MissionControl               *)
(* (orchestrator/bridge/king.go): one King value shared by concurrent      *)
(* callers of Start, Stop and SendMessage, the goroutines it spawns        *)
(* (monitorTokens, waitForResponse), the tmux session it drives and the    *)
(* consumer of its event channel.                                          *)
(*                                                                         *)
(* A call is split into steps at the points where another goroutine can    *)
(* interleave (every tmux command, every emitEvent made outside k.mu).     *)
(* Start and Stop hold k.mu from their first step to their return.         *)
(*                                                                         *)
(* Further parts: AnswerQuestion, the conversation log read by the file    *)
(* protocol, the captured pane as text (waitForPrompt, isQuestionUI,       *)
(* parseQuestion) and the mission directory written by the mc commands     *)
(* init, phase, gate and handoff (cmd/mc), with mc handoff also as         *)
(* processes of several workers that interleave at their file accesses.    *)
(*                                                                         *)
(* lifecycle, polled and sentIn record what was emitted, polled and sent;   *)
(* the program does not read them.                                         *)
(***************************************************************************)
EXTENDS Naturals, Integers, Sequences, FiniteSets, TLC

(* ---------------- bounds ---------------- *)
\* Start() calls that get past the precondition checks
MaxStarts == 2
\* SendMessage() calls that get past the status check (exchanges)
MaxSends == 1
\* readiness polls of one waitForPrompt (promptTimeout / pollInterval, scaled)
MaxPolls == 1
\* capacity of the events channel (make(chan KingEvent, 100), scaled)
EventCap == 1
\* largest total the external usage source reports
MaxExt == 1
\* most options a selection prompt lists
MaxOptions == 3
\* most characters the agent appends to conversation.md
MaxLog == 6
\* most completion waits that end in a timeout
MaxTimeouts == 1
\* mc phase next commands that succeed in one run
MaxNexts == 6
\* handoffs accepted in one run
MaxHandoffs == 2
\* seconds that pass in one run
MaxClock == 1
\* lines of a captured pane
MaxLines == 4
\* lines of a pane drawn during the start
MaxSnapshot == 2
\* polls of the monitoring loops that are recorded
MaxTicks == 3

(* ---------------- program constants ---------------- *)
KingStatusStopped == "stopped"
KingStatusStarting == "starting"
KingStatusRunning == "running"
KingStatusError == "error"
KingStatuses == {KingStatusStopped, KingStatusStarting, KingStatusRunning, KingStatusError}

\* cost per token in units of 10^-6 dollar: $0.003/1K input, $0.015/1K output
RateIn == 3
RateOut == 15

\* the goroutines that call the exported methods
Callers == {"c1", "c2"}
\* the sequential workload makes one exchange more than the concurrent one
ExIds == 1..(MaxSends + 1)
MonIds == 1..MaxStarts
Free == "free"

VARIABLES
    status,       \* k.status
    mu,           \* k.mu: Free or the caller holding the write lock
    stopChan,     \* k.stopChan: identity of the current stop channel
    closed,       \* stop channels that have been closed
    crashed,      \* the process panicked (close of a closed channel)
    lastPane,     \* k.lastPane
    totalTokens,  \* k.totalTokens
    totalCost,    \* k.totalCost, in 10^-6 dollar
    events,       \* k.events: the queued events, oldest first
    session,      \* the tmux session "mc-king" exists
    paneReady,    \* the pane of the session shows a prompt glyph
    configPresent,\* .mission/CLAUDE.md exists
    pc,           \* position of each caller
    op,           \* operation each caller is in (or returned from)
    ret,          \* result of the call: "none", "ok", "err"
    trace,        \* effects performed by the current call, in order
    polls,        \* readiness polls done by the caller's waitForPrompt
    curEx,        \* exchange of the caller's SendMessage
    nStarts,      \* Start() calls past the precondition checks
    nextEx,       \* exchanges created so far
    ex,           \* per exchange: state of its waitForResponse, events emitted
    mon,          \* per stop channel: state of the monitorTokens started with it
    limit,        \* fixed at construction: capacity of k.events, calls the clients make
    choice,       \* the selection prompt the pane of the session shows
    ans,          \* locals of each caller's AnswerQuestion
    usage,        \* per exchange: currentTokens, currentCost of emitTokenUsage
    reported,     \* tokens and cost carried by the latest tokens_updated event
    convLog,      \* conversation.md: the text the agent has appended
    offset,       \* the file protocol's stored read position in conversation.md
    replies,      \* the texts returned by the successful completion waits, in order
    phase,        \* .mission/state/phase.json: current
    gates,        \* .mission/state/gates.json: status of the gate of each phase
    tasks,        \* .mission/state/tasks.json: status of each task
    taskPhase,    \* .mission/state/tasks.json: phase of each task
    workers,      \* .mission/state/workers.json: status of each worker
    handoffs,     \* .mission/handoffs/: file name and content of each record
    findings,     \* .mission/findings/: the findings file of each task
    now,          \* the wall clock, in seconds
    accepted,     \* handoffs accepted so far
    mcProc,       \* per worker: the mc handoff process it has started, its locals
    cli,          \* the latest mc command and whether it returned an error
    nexts,        \* successful "mc phase next" commands so far
    direct,       \* another command than "mc phase next" has written phase.json
    paneText,     \* a captured pane, line by line
    parsed,       \* what parseQuestion returned for paneText
    lifecycle,    \* the king_started and king_stopped events emitted, in order
    polled,       \* the first limit.ticks polls of the monitoring loops, in order
    sentIn        \* per exchange: the run (its stop channel) SendMessage accepted it in,
                  \* recorded when limit.runs

vars == <<status, mu, stopChan, closed, crashed, lastPane, totalTokens, totalCost,
          events, session, paneReady, configPresent, pc, op, ret, trace,
          polls, curEx, nStarts, nextEx, ex, mon, limit, choice, ans, usage,
          reported, convLog, offset, replies, phase, gates, tasks, taskPhase, workers,
          handoffs, findings, now, accepted, mcProc, cli, nexts, direct,
          paneText, parsed,
          lifecycle, polled, sentIn>>

kingVars == <<status, stopChan, closed, crashed, lastPane, totalTokens, totalCost>>
tmuxVars == <<session, paneReady>>
goVars == <<ex, mon, nextEx>>
answerVars == <<choice, ans>>
usageVars == <<usage, reported>>
protoVars == <<convLog, offset, replies>>
handoffVars == <<tasks, taskPhase, workers, handoffs, findings, now, accepted,
                 mcProc>>
missionVars == <<phase, gates, handoffVars, cli, nexts, direct>>
paneVars == <<paneText, parsed>>
recordVars == <<lifecycle, polled, sentIn>>

(* ---------------- helpers ---------------- *)

\* number of occurrences of an element of S in sequence q
Count(q, S) == Cardinality({i \in 1..Len(q) : q[i] \in S})

\* emitEvent making room by discarding the oldest queued event
emitEvent_Overwrite(q, eventType) ==
    IF Len(q) < limit.cap THEN Append(q, eventType) ELSE Append(Tail(q), eventType)

\* emitEvent: non-blocking send on the bounded channel
emitEvent(q, eventType) ==
    IF Len(q) < limit.cap THEN Append(q, eventType) ELSE q

\* the caller-local bookkeeping of a finished call
Finish(t, r, tr) ==
    /\ pc' = [pc EXCEPT ![t] = "done"]
    /\ ret' = [ret EXCEPT ![t] = r]
    /\ trace' = [trace EXCEPT ![t] = tr]

Goto(t, p, tr) ==
    /\ pc' = [pc EXCEPT ![t] = p]
    /\ trace' = [trace EXCEPT ![t] = tr]
    /\ UNCHANGED ret

\* locals of an AnswerQuestion call that has not captured the pane
NoAnswer == [target |-> 0, options |-> <<>>, selected |-> 0, event |-> <<>>]

\* a pane without a selection prompt
NoChoice == [ui |-> FALSE, options |-> <<>>, selected |-> 0]

\* the workflow phases, in order
phases == <<"idea", "design", "implement", "verify", "document", "release">>
PhaseNames == {phases[i] : i \in 1..Len(phases)}

\* tasks and workers a mission can hold
TaskIds == {"task-1", "task-2"}
WorkerIds == {"worker-1", "worker-2"}
Absent == "absent"

\* a findings file that does not exist
NoFile == [exists |-> FALSE, list |-> <<>>]

NoCommand == [cmd |-> "none", err |-> FALSE]

\* parseQuestion not called yet; parseQuestion returning nil
Unparsed == [ran |-> FALSE, found |-> FALSE, options |-> <<>>, selected |-> 0]
NoParse == [ran |-> TRUE, found |-> FALSE, options |-> <<>>, selected |-> 0]

\* no mc handoff process of the worker has run
NoProcess ==
    [pc |-> "idle", file |-> <<>>, existingFindings |-> <<>>,
     tasksState |-> <<>>, workersState |-> <<>>]

\* mc init: phase idea, every gate pending, no task, no worker, empty
\* handoffs/ and findings/
runInit ==
    /\ phase = "idea"
    /\ gates = [p \in PhaseNames |-> "pending"]
    /\ tasks = [t \in TaskIds |-> Absent]
    /\ taskPhase = [t \in TaskIds |-> phases[1]]
    /\ workers = [w \in WorkerIds |-> Absent]
    /\ handoffs = {}
    /\ findings = [t \in TaskIds |-> NoFile]
    /\ now = 0
    /\ accepted = 0
    /\ mcProc = [w \in WorkerIds |-> NoProcess]
    /\ cli = NoCommand
    /\ nexts = 0
    /\ direct = FALSE

\* make the given numbers of calls from the given goroutines; found: whether
\* a tmux session of the name is there already (left by an earlier process)
InitOn(lim, active, found, captured) ==
    /\ limit = lim
    /\ status = KingStatusStopped
    /\ mu = Free
    /\ stopChan = 0
    /\ closed = {}
    /\ crashed = FALSE
    /\ lastPane = ""
    /\ totalTokens = 0
    /\ totalCost = 0
    /\ events = <<>>
    /\ session \in found
    /\ paneReady = FALSE
    /\ configPresent \in BOOLEAN
    /\ pc = [t \in Callers |-> IF t \in active THEN "idle" ELSE "off"]
    /\ op = [t \in Callers |-> "none"]
    /\ ret = [t \in Callers |-> "none"]
    /\ trace = [t \in Callers |-> <<>>]
    /\ polls = [t \in Callers |-> 0]
    /\ curEx = [t \in Callers |-> 0]
    /\ nStarts = 0
    /\ nextEx = 0
    /\ ex = [e \in ExIds |-> [st |-> "none", ev |-> <<>>]]
    /\ mon = [g \in MonIds |-> [st |-> "none", last |-> 0]]
    /\ choice = NoChoice
    /\ ans = [t \in Callers |-> NoAnswer]
    /\ usage = [e \in ExIds |-> [tokens |-> 0, cost |-> 0]]
    /\ reported = [tokens |-> 0, cost |-> 0]
    /\ convLog = <<>>
    /\ offset = 0
    /\ replies = <<>>
    /\ runInit
    /\ paneText \in captured
    /\ parsed = Unparsed
    /\ lifecycle = <<>>
    /\ polled = <<>>
    /\ sentIn = [e \in ExIds |-> 0]

\* the same with an empty captured pane
InitWith(lim, active, found) == InitOn(lim, active, found, {<<>>})

\* two concurrent clients
Init ==
    InitWith([starts |-> MaxStarts, sends |-> MaxSends, cap |-> EventCap, ticks |-> 0,
              taskPhases |-> {phases[1]}, runs |-> FALSE], Callers,
             {FALSE})

\* one client making its calls one after the other, a channel with more room
SeqInit ==
    InitWith([starts |-> MaxStarts - 1, sends |-> MaxSends + 1, cap |-> EventCap + 1, ticks |-> 0,
              taskPhases |-> {phases[1]}, runs |-> FALSE],
             {"c1"}, BOOLEAN)

(* ---------------- Start ---------------- *)

\* Start without the check of line 200
AlreadyRunning_Unchecked == FALSE

\* Start, line 200: the call is rejected
AlreadyRunning == status = KingStatusRunning

\* Start without the check of line 206
ConfigMissing_Unchecked == FALSE

\* Start, line 206: .mission/CLAUDE.md does not exist
ConfigMissing == ~configPresent

\* Start setting Running at once, without the Starting phase
StartingStatus_Skipped == KingStatusRunning

\* Start, line 229: the status while the session is brought up
StartingStatus == KingStatusStarting

\* Start, lines 196-229: lock, precondition checks, status = Starting
StartCheck(t) ==
    /\ pc[t] = "idle"
    /\ mu = Free
    /\ op' = [op EXCEPT ![t] = "Start"]
    /\ polls' = [polls EXCEPT ![t] = 0]
    /\ IF AlreadyRunning
       THEN /\ Finish(t, "err", <<>>)
            /\ UNCHANGED <<status, mu, nStarts>>
       ELSE IF ConfigMissing
       THEN /\ status' = KingStatusError
            /\ Finish(t, "err", <<>>)
            /\ UNCHANGED <<mu, nStarts>>
       ELSE /\ nStarts < limit.starts
            /\ nStarts' = nStarts + 1
            /\ status' = StartingStatus
            /\ mu' = t
            /\ Goto(t, "start_create", <<>>)
    /\ UNCHANGED <<limit, answerVars, usageVars, protoVars, missionVars, paneVars, recordVars>>
    /\ UNCHANGED <<stopChan, closed, crashed, lastPane, totalTokens, totalCost,
                   events, tmuxVars, configPresent, curEx, goVars>>

\* tmuxCmd against the session (send-keys, capture-pane): it fails exactly when
\* no session of that name exists
TmuxOutcomes == {session}

\* killSession, king.go:364-366 (also the kill-session of Start, line 233)
killSession ==
    /\ session' = FALSE
    /\ paneReady' = FALSE

\* Start creating its session without looking for an older one
KillExisting_Never(existing) == FALSE

\* Start, lines 232-235: kill-session is run when has-session finds the name
KillExisting(existing) == existing

\* Start, lines 231-249: kill an existing session, create the new one;
\* new-session fails when a session of the name exists, and may fail anyway
StartCreateSession(t) ==
    /\ pc[t] = "start_create"
    /\ LET kill == KillExisting(session)
           left == session /\ ~kill
           tr == trace[t] \o (IF kill THEN <<"kill">> ELSE <<>>)
       IN \E ok \in (IF left THEN {FALSE} ELSE BOOLEAN) :
            IF ok
            THEN /\ session' = TRUE
                 /\ paneReady' = FALSE
                 /\ Goto(t, "start_launch", tr \o <<"create">>)
                 /\ UNCHANGED <<status, mu>>
            ELSE /\ session' = left
                 /\ paneReady' = (left /\ paneReady)
                 /\ status' = KingStatusError
                 /\ mu' = Free
                 /\ Finish(t, "err", tr)
    /\ UNCHANGED <<limit, answerVars, usageVars, protoVars, missionVars, paneVars, recordVars>>
    /\ UNCHANGED <<stopChan, closed, crashed, lastPane, totalTokens, totalCost,
                   events, configPresent, op, polls, curEx, nStarts, goVars>>

\* Start, lines 251-258: type the claude command into the session
StartLaunch(t) ==
    /\ pc[t] = "start_launch"
    /\ \E ok \in TmuxOutcomes :
         IF ok
         THEN /\ Goto(t, "start_wait", trace[t] \o <<"key:claude">>)
              /\ UNCHANGED <<status, mu, session, paneReady>>
         ELSE /\ killSession
              /\ status' = KingStatusError
              /\ mu' = Free
              /\ Finish(t, "err", trace[t] \o <<"kill">>)
    /\ UNCHANGED <<limit, answerVars, usageVars, protoVars, missionVars, paneVars, recordVars>>
    /\ UNCHANGED <<stopChan, closed, crashed, lastPane, totalTokens, totalCost,
                   events, configPresent, op, polls, curEx, nStarts, goVars>>

\* waitForPrompt, line 173: the deadline has passed
PromptDeadline(n) == n >= MaxPolls

\* waitForPrompt, line 181: the captured pane shows a prompt glyph
PromptSeen(captured, ready) == captured /\ ready

\* Start without the killSession of line 262
SessionAfterTimeout_Kept(s) == s

\* Start, line 262: what is left of the session after a readiness timeout
SessionAfterTimeout(s) == FALSE

\* Start, lines 260-265 with waitForPrompt, lines 171-187: one poll
StartPoll(t) ==
    /\ pc[t] = "start_wait"
    /\ IF PromptDeadline(polls[t])
       THEN /\ session' = SessionAfterTimeout(session)
            /\ paneReady' = (session' /\ paneReady)
            /\ status' = KingStatusError
            /\ mu' = Free
            /\ Finish(t, "err", trace[t] \o <<"kill">>)
            /\ UNCHANGED polls
       ELSE \E captured \in TmuxOutcomes :
              /\ IF PromptSeen(captured, paneReady)
                 THEN Goto(t, "start_run", trace[t] \o <<"ready">>) /\ UNCHANGED polls
                 ELSE /\ polls' = [polls EXCEPT ![t] = @ + 1]
                      /\ UNCHANGED <<pc, ret, trace>>
              /\ UNCHANGED <<status, mu, tmuxVars>>
    /\ UNCHANGED <<limit, answerVars, usageVars, protoVars, missionVars, paneVars, recordVars>>
    /\ UNCHANGED <<stopChan, closed, crashed, lastPane, totalTokens, totalCost,
                   events, configPresent, op, curEx, nStarts, goVars>>

\* Start without the reset of lines 272-273
TotalsAfterStart_Kept(x) == x

\* Start, lines 272-273: the totals a successful Start leaves
TotalsAfterStart(x) == 0

\* Start, lines 267-279: Running, fresh stop channel, totals reset, king_started
StartRun(t) ==
    /\ pc[t] = "start_run"
    /\ \E captured \in TmuxOutcomes : lastPane' = IF captured THEN "pane" ELSE ""
    /\ status' = KingStatusRunning
    /\ stopChan' = stopChan + 1
    /\ totalTokens' = TotalsAfterStart(totalTokens)
    /\ totalCost' = TotalsAfterStart(totalCost)
    /\ events' = emitEvent(events, "king_started")
    /\ lifecycle' = Append(lifecycle, "king_started")
    /\ Goto(t, "start_announce", trace[t] \o <<"king_started">>)
    /\ UNCHANGED <<limit, answerVars, usageVars, protoVars, missionVars, paneVars, polled, sentIn>>
    /\ UNCHANGED <<mu, closed, crashed, tmuxVars, configPresent, op, polls, curEx,
                   nStarts, goVars>>

\* Start, lines 281-302: agent_spawned, go monitorTokens, unlock, return nil
StartAnnounce(t) ==
    /\ pc[t] = "start_announce"
    /\ events' = emitEvent(events, "agent_spawned")
    /\ mon' = [mon EXCEPT ![stopChan] = [st |-> "spawned", last |-> 0]]
    /\ mu' = Free
    /\ Finish(t, "ok", trace[t] \o <<"agent_spawned", "go:monitorTokens">>)
    /\ UNCHANGED <<limit, answerVars, usageVars, protoVars, missionVars, paneVars, recordVars>>
    /\ UNCHANGED <<kingVars, tmuxVars, configPresent, op, polls, curEx, nStarts,
                   ex, nextEx>>

(* ---------------- Stop ---------------- *)

\* Stop without the check of line 373
StopRejected_Unchecked(st) == FALSE

\* Stop, line 373: the call is rejected
StopRejected(st) == st # KingStatusRunning

\* Stop, lines 369-378: lock, status check, close(k.stopChan)
StopCheck(t) ==
    /\ pc[t] = "idle"
    /\ mu = Free
    /\ op' = [op EXCEPT ![t] = "Stop"]
    /\ IF StopRejected(status)
       THEN /\ Finish(t, "err", <<>>)
            /\ UNCHANGED <<mu, closed, crashed>>
       ELSE /\ mu' = t
            /\ IF stopChan \in closed
               THEN crashed' = TRUE /\ UNCHANGED closed
               ELSE closed' = closed \cup {stopChan} /\ UNCHANGED crashed
            /\ Goto(t, "stop_interrupt", <<"close">>)
    /\ UNCHANGED <<limit, answerVars, usageVars, protoVars, missionVars, paneVars, recordVars>>
    /\ UNCHANGED <<status, stopChan, lastPane, totalTokens, totalCost, events,
                   tmuxVars, configPresent, polls, curEx, nStarts, goVars>>

\* Stop, lines 380-382: send Ctrl-C, result ignored
StopInterrupt(t) ==
    /\ pc[t] = "stop_interrupt"
    /\ Goto(t, "stop_kill", trace[t] \o <<"key:C-c">>)
    /\ UNCHANGED <<limit, answerVars, usageVars, protoVars, missionVars, paneVars, recordVars>>
    /\ UNCHANGED <<kingVars, mu, events, session, paneReady, configPresent, op,
                   polls, curEx, nStarts, goVars>>

\* Stop announcing the removed agent before the stop
StopEvents_Swapped == <<"agent_stopped", "king_stopped">>

\* Stop, lines 391-396: the events of a Stop, in emission order
StopEvents == <<"king_stopped", "agent_stopped">>

\* Stop, lines 384-391: kill the session, Stopped, king_stopped
StopKill(t) ==
    /\ pc[t] = "stop_kill"
    /\ killSession
    /\ status' = KingStatusStopped
    /\ lastPane' = ""
    /\ events' = emitEvent(events, StopEvents[1])
    /\ lifecycle' = lifecycle \o SelectSeq(<<StopEvents[1]>>, LAMBDA x : x = "king_stopped")
    /\ Goto(t, "stop_announce", trace[t] \o <<"kill", StopEvents[1]>>)
    /\ UNCHANGED <<limit, answerVars, usageVars, protoVars, missionVars, paneVars, polled, sentIn>>
    /\ UNCHANGED <<mu, stopChan, closed, crashed, totalTokens, totalCost,
                   configPresent, op, polls, curEx, nStarts, goVars>>

\* Stop, lines 393-398: agent_stopped, unlock, return nil
StopAnnounce(t) ==
    /\ pc[t] = "stop_announce"
    /\ events' = emitEvent(events, StopEvents[2])
    /\ lifecycle' = lifecycle \o SelectSeq(<<StopEvents[2]>>, LAMBDA x : x = "king_stopped")
    /\ mu' = Free
    /\ Finish(t, "ok", trace[t] \o <<StopEvents[2]>>)
    /\ UNCHANGED <<limit, answerVars, usageVars, protoVars, missionVars, paneVars, polled, sentIn>>
    /\ UNCHANGED <<kingVars, tmuxVars, configPresent, op, polls, curEx, nStarts,
                   goVars>>

(* ---------------- SendMessage ---------------- *)

\* SendMessage without the check of line 407
SendRejected_Unchecked(st) == FALSE

\* SendMessage, line 407: the call is rejected
SendRejected(st) == st # KingStatusRunning

\* SendMessage injecting the text without announcing the user message
SendFirstStep_Inject == "send_keys"

\* SendMessage, lines 411-419: the step that follows the status check
SendFirstStep == "send_emit"

\* the run an accepted message belongs to, kept where the runs are recorded
SentIn(run) == IF limit.runs THEN run ELSE 0

\* SendMessage, lines 402-409: read status under the read lock
SendCheck(t) ==
    /\ pc[t] = "idle"
    /\ mu = Free
    /\ op' = [op EXCEPT ![t] = "SendMessage"]
    /\ IF SendRejected(status)
       THEN /\ Finish(t, "err", <<>>)
            /\ UNCHANGED <<curEx, ex, nextEx, sentIn>>
       ELSE /\ nextEx < limit.sends
            /\ nextEx' = nextEx + 1
            /\ curEx' = [curEx EXCEPT ![t] = nextEx + 1]
            /\ ex' = [ex EXCEPT ![nextEx + 1].st = "sending"]
            /\ sentIn' = [sentIn EXCEPT ![nextEx + 1] = SentIn(stopChan)]
            /\ Goto(t, SendFirstStep, <<>>)
    /\ UNCHANGED <<limit, answerVars, usageVars, protoVars, missionVars, paneVars,
                   lifecycle, polled>>
    /\ UNCHANGED <<kingVars, mu, events, tmuxVars, configPresent, polls, nStarts, mon>>

\* SendMessage, lines 411-415: emit king_user_message
SendEmitUser(t) ==
    /\ pc[t] = "send_emit"
    /\ events' = emitEvent(events, "king_user_message")
    /\ ex' = [ex EXCEPT ![curEx[t]].ev = Append(@, "king_user_message")]
    /\ Goto(t, "send_keys", trace[t] \o <<"king_user_message">>)
    /\ UNCHANGED <<limit, answerVars, usageVars, protoVars, missionVars, paneVars, recordVars>>
    /\ UNCHANGED <<kingVars, mu, tmuxVars, configPresent, op, polls, curEx, nStarts,
                   mon, nextEx>>

\* SendMessage, lines 417-423: inject the literal text
SendText(t) ==
    /\ pc[t] = "send_keys"
    /\ \E ok \in TmuxOutcomes :
         IF ok
         THEN /\ Goto(t, "send_escape", trace[t] \o <<"key:text">>)
              /\ UNCHANGED <<events, ex>>
         ELSE /\ events' = emitEvent(events, "king_error")
              /\ ex' = [ex EXCEPT ![curEx[t]] =
                          [st |-> "failed", ev |-> Append(@.ev, "king_error")]]
              /\ Finish(t, "err", trace[t] \o <<"key:text", "king_error">>)
    /\ UNCHANGED <<limit, answerVars, usageVars, protoVars, missionVars, paneVars, recordVars>>
    /\ UNCHANGED <<kingVars, mu, session, paneReady, configPresent, op, polls, curEx,
                   nStarts, mon, nextEx>>

\* one keystroke of the submit sequence, result ignored
SubmitKey(t, from, key, to) ==
    /\ pc[t] = from
    /\ Goto(t, to, trace[t] \o <<"key:" \o key>>)
    /\ UNCHANGED <<limit, answerVars, usageVars, protoVars, missionVars, paneVars, recordVars>>
    /\ UNCHANGED <<kingVars, mu, events, session, paneReady, configPresent, op, polls,
                   curEx, nStarts, goVars>>

\* SendMessage, lines 425-427
SendEscape(t) == SubmitKey(t, "send_escape", "Escape", "send_enter")

\* SendMessage, lines 428-429
SendEnter(t) == SubmitKey(t, "send_enter", "Enter", "send_spawn")

\* SendMessage, line 434: go k.waitForResponse(message)
SendSpawn(t) ==
    /\ pc[t] = "send_spawn"
    /\ ex' = [ex EXCEPT ![curEx[t]].st = "waiting"]
    /\ Goto(t, "send_return", trace[t] \o <<"go:waitForResponse">>)
    /\ UNCHANGED <<limit, answerVars, usageVars, protoVars, missionVars, paneVars, recordVars>>
    /\ UNCHANGED <<kingVars, mu, events, tmuxVars, configPresent, op, polls, curEx,
                   nStarts, mon, nextEx>>

\* SendMessage, line 436: return nil
SendReturn(t) ==
    /\ pc[t] = "send_return"
    /\ Finish(t, "ok", trace[t])
    /\ UNCHANGED <<limit, answerVars, usageVars, protoVars, missionVars, paneVars, recordVars>>
    /\ UNCHANGED <<kingVars, mu, events, tmuxVars, configPresent, op, polls, curEx,
                   nStarts, goVars>>

(* ---------------- AnswerQuestion ---------------- *)

\* the texts of the options a selection prompt may list, top to bottom
OptionTexts == [i \in 1..MaxOptions |-> IF i = 1 THEN "yes" ELSE IF i = 2 THEN "no" ELSE "other"]

\* the panes the agent may draw: with or without the navigation hint, listing
\* the first n options, one of them (the first, if none is marked) highlighted
Panes ==
    {[ui |-> u, options |-> SubSeq(OptionTexts, 1, n), selected |-> h] :
       u \in BOOLEAN, n \in 0..MaxOptions, h \in 0..(MaxOptions - 1)}

\* the indices a client may pass
Targets == (0 - 1)..MaxOptions

\* isQuestionUI, lines 503-511
isQuestionUI(pane) == pane.ui

\* parseQuestion, lines 563-582: no question when no option line was found
parseQuestion(pane) ==
    IF Len(pane.options) = 0 THEN NoAnswer
    ELSE [NoAnswer EXCEPT !.options = pane.options, !.selected = pane.selected]

\* AnswerQuestion accepting the index one past the last option
OutOfRange_Inclusive(optionIndex, n) == optionIndex < 0 \/ optionIndex > n

\* AnswerQuestion, line 464
OutOfRange(optionIndex, n) == optionIndex < 0 \/ optionIndex >= n

\* AnswerQuestion always walking down from the first option
Moves_FromTop(optionIndex, currentIdx) == [i \in 1..optionIndex |-> "key:Down"]

\* AnswerQuestion, lines 469-485: the arrow keys sent, in order
Moves(optionIndex, currentIdx) ==
    LET diff == optionIndex - currentIdx IN
    IF diff > 0 THEN [i \in 1..diff |-> "key:Down"]
    ELSE IF diff < 0 THEN [i \in 1..(0 - diff) |-> "key:Up"]
    ELSE <<>>

\* AnswerQuestion, lines 440-447: read status under the read lock
AnswerCheck(t) ==
    /\ pc[t] = "idle"
    /\ mu = Free
    /\ op' = [op EXCEPT ![t] = "AnswerQuestion"]
    /\ \E optionIndex \in Targets :
         IF status # KingStatusRunning
         THEN Finish(t, "err", <<>>) /\ UNCHANGED ans
         ELSE /\ Goto(t, "answer_capture", <<>>)
              /\ ans' = [ans EXCEPT ![t] = [NoAnswer EXCEPT !.target = optionIndex]]
    /\ UNCHANGED <<kingVars, mu, events, tmuxVars, configPresent, polls, curEx,
                   nStarts, goVars, limit, choice, usageVars, protoVars, missionVars, paneVars, recordVars>>

\* AnswerQuestion, lines 449-466: capture the pane, find and parse the
\* selection prompt, validate the index
AnswerCapture(t) ==
    /\ pc[t] = "answer_capture"
    /\ \E captured \in TmuxOutcomes :
         LET question == parseQuestion(choice) IN
         IF \/ ~captured
            \/ ~isQuestionUI(choice)
            \/ question = NoAnswer
            \/ OutOfRange(ans[t].target, Len(question.options))
         THEN Finish(t, "err", <<"capture">>) /\ UNCHANGED ans
         ELSE /\ Goto(t, "answer_move", <<"capture">>)
              /\ ans' = [ans EXCEPT ![t] = [question EXCEPT !.target = ans[t].target]]
    /\ UNCHANGED <<kingVars, mu, events, tmuxVars, configPresent, op, polls, curEx,
                   nStarts, goVars, limit, choice, usageVars, protoVars, missionVars, paneVars, recordVars>>

\* the arrow keys the call has sent so far
MovesSent(t) == Count(trace[t], {"key:Down", "key:Up"})

\* what an arrow key does to the selection prompt of a live session
Highlight(pane, key) ==
    IF ~session \/ ~pane.ui \/ pane.options = <<>> THEN pane
    ELSE IF key = "key:Down"
    THEN [pane EXCEPT !.selected = IF @ + 1 < Len(pane.options) THEN @ + 1 ELSE @]
    ELSE [pane EXCEPT !.selected = IF @ > 0 THEN @ - 1 ELSE 0]

\* AnswerQuestion, lines 474-485: one arrow key, result ignored
AnswerMove(t) ==
    /\ pc[t] = "answer_move"
    /\ LET keys == Moves(ans[t].target, ans[t].selected) IN
       IF MovesSent(t) < Len(keys)
       THEN /\ Goto(t, "answer_move", Append(trace[t], keys[MovesSent(t) + 1]))
            /\ choice' = Highlight(choice, keys[MovesSent(t) + 1])
       ELSE /\ Goto(t, "answer_confirm", trace[t])
            /\ UNCHANGED choice
    /\ UNCHANGED <<kingVars, mu, events, tmuxVars, configPresent, op, polls, curEx,
                   nStarts, goVars, limit, ans, usageVars, protoVars, missionVars, paneVars, recordVars>>

\* AnswerQuestion, lines 487-489: Enter, result ignored; a live prompt closes
AnswerConfirm(t) ==
    /\ pc[t] = "answer_confirm"
    /\ Goto(t, "answer_emit", Append(trace[t], "key:Enter"))
    /\ choice' = IF session /\ choice.ui THEN NoChoice ELSE choice
    /\ UNCHANGED <<kingVars, mu, events, tmuxVars, configPresent, op, polls, curEx,
                   nStarts, goVars, limit, ans, usageVars, protoVars, missionVars, paneVars, recordVars>>

\* AnswerQuestion, lines 491-499: king_answer with the index and its text
AnswerEmit(t) ==
    /\ pc[t] = "answer_emit"
    /\ events' = emitEvent(events, "king_answer")
    /\ ans' = [ans EXCEPT ![t].event =
                  <<ans[t].target, ans[t].options[ans[t].target + 1]>>]
    /\ Finish(t, "ok", Append(trace[t], "king_answer"))
    /\ UNCHANGED <<kingVars, mu, tmuxVars, configPresent, op, polls, curEx,
                   nStarts, goVars, limit, choice, usageVars, protoVars, missionVars, paneVars, recordVars>>

(* ---------------- the captured pane as text ---------------- *)

\* A pane is a sequence of lines, a line a sequence of characters; the
\* phrases "Enter to select" and "(arrows) to navigate" are written "E" and
\* "N", the marker glyph "MARK" and the checkbox glyph "BOX".
\* The question text of parseQuestion, which no option and no index depends
\* on, is left out.
HintEnter == "E"
HintArrows == "N"
Marker == "MARK"
Checkbox == "BOX"

\* the lines a pane is made of
PaneLines ==
    { <<" ">>,
      <<" ", "1", ".", " ", "y">>,
      <<Marker, " ", "1", ".", " ", "y">>,
      <<" ", "2", ".", " ", "n">>,
      <<Marker, " ", "2", ".", " ", "n">>,
      <<" ", "3", ".", " ", "m", "\t", "d">>,
      <<HintEnter>>,
      <<HintArrows>>,
      <<Checkbox, " ", "t">>,
      <<"$", " ", ">">> }

RECURSIVE PanesOfLen(_)
PanesOfLen(n) ==
    IF n = 0 THEN {<<>>}
    ELSE {Append(q, l) : q \in PanesOfLen(n - 1), l \in PaneLines}

PaneTexts == UNION {PanesOfLen(n) : n \in 0..MaxLines}

IsSpace(c) == c \in {" ", "\t"}
IsDigit(c) == c \in {"1", "2", "3"}

\* the first position from i on that holds no white space (\s*)
SkipSpace(line, i) ==
    CHOOSE j \in i..(Len(line) + 1) :
      /\ \A k \in i..(j - 1) : IsSpace(line[k])
      /\ j = Len(line) + 1 \/ ~IsSpace(line[j])

\* the first position from i on that holds no digit (\d+)
SkipDigits(line, i) ==
    CHOOSE j \in i..(Len(line) + 1) :
      /\ \A k \in i..(j - 1) : IsDigit(line[k])
      /\ j = Len(line) + 1 \/ ~IsDigit(line[j])

\* strings.TrimSpace
TrimSpace(str) ==
    IF \A k \in 1..Len(str) : IsSpace(str[k])
    THEN <<>>
    ELSE SubSeq(str,
                SkipSpace(str, 1),
                CHOOSE j \in 1..Len(str) :
                  ~IsSpace(str[j]) /\ \A k \in (j + 1)..Len(str) : IsSpace(str[k]))

\* strings.Contains for a phrase written as one character
Contains(str, c) == \E k \in 1..Len(str) : str[k] = c

\* strings.Contains(pane, marker + " 1.") and the like
ContainsMarked(str, d) ==
    \E k \in 1..(Len(str) - 3) :
      str[k] = Marker /\ str[k + 1] = " " /\ str[k + 2] = d /\ str[k + 3] = "."

\* optionRegex ^\s*(marker)?\s*(\d+)\.\s*(.+)$ : whether the line matches,
\* whether group 1 is the marker, and the part after the dot
optionRegex(line) ==
    LET a == SkipSpace(line, 1)
        m == a <= Len(line) /\ line[a] = Marker
        b == IF m THEN SkipSpace(line, a + 1) ELSE a
        c == SkipDigits(line, b)
    IN  [ok |-> c > b /\ c < Len(line) /\ line[c] = ".",
         marked |-> m,
         rest |-> SubSeq(line, c + 1, Len(line))]

\* parseQuestion, lines 545-550: the option text, cut at the first tab
optionText(rest) ==
    LET t == TrimSpace(rest) IN
    IF \E k \in 2..Len(t) : t[k] = "\t"
    THEN TrimSpace(SubSeq(t, 1, (CHOOSE k \in 2..Len(t) :
                                  t[k] = "\t" /\ \A j \in 1..(k - 1) : t[j] # "\t") - 1))
    ELSE t

\* the glyphs waitForPrompt looks for
PromptGlyphs == {Marker, ">"}

\* a readiness check that looks at the last line only
promptShown_LastLine(pane) ==
    /\ Len(pane) > 0
    /\ Contains(pane[Len(pane)], Marker) \/ Contains(pane[Len(pane)], ">")

\* waitForPrompt, line 180: the readiness check on a captured pane
promptShown(pane) ==
    \/ \E i \in 1..Len(pane) : Contains(pane[i], Marker)
    \/ \E i \in 1..Len(pane) : Contains(pane[i], ">")

\* the panes the program in the session draws while it starts
Snapshots == UNION {PanesOfLen(n) : n \in 0..MaxSnapshot}

\* isQuestionUI on the text: a navigation hint and an option marker
isQuestionUIText(pane) ==
    /\ \E i \in 1..Len(pane) :
         Contains(pane[i], HintEnter) \/ Contains(pane[i], HintArrows)
    /\ \E i \in 1..Len(pane) :
         \/ Contains(pane[i], Checkbox)
         \/ ContainsMarked(pane[i], "1")
         \/ ContainsMarked(pane[i], "2")

\* an index counted from one
SelectedAt_FromOne(n) == n

\* parseQuestion, line 554: the index of the option appended last
SelectedAt(n) == n - 1

\* parseQuestion, lines 558-560: the line that ends the scan
StopsScan(trimmed) == Contains(trimmed, HintEnter)

\* parseQuestion, lines 525-561: the loop over the lines from line i on,
\* with the options and the index collected so far
RECURSIVE scanLines(_, _, _, _)
scanLines(lines, i, options, selectedIdx) ==
    IF i > Len(lines)
    THEN [options |-> options, selected |-> selectedIdx]
    ELSE LET m == optionRegex(lines[i])
             opts == IF m.ok THEN Append(options, optionText(m.rest)) ELSE options
             sel == IF m.ok /\ m.marked THEN SelectedAt(Len(opts)) ELSE selectedIdx
         IN  IF StopsScan(TrimSpace(lines[i]))
             THEN [options |-> opts, selected |-> sel]
             ELSE scanLines(lines, i + 1, opts, sel)

\* a parse that returns a prompt also when it found no option
NoOptions_Never(options) == FALSE

\* parseQuestion, line 563
NoOptions(options) == Len(options) = 0

\* parseQuestion on the text
parseQuestionText(pane) ==
    LET r == scanLines(pane, 1, <<>>, 0) IN
    IF NoOptions(r.options)
    THEN NoParse
    ELSE [ran |-> TRUE, found |-> TRUE, options |-> r.options,
          selected |-> r.selected]

\* parseQuestion is called on the captured pane
ParseQuestion ==
    /\ ~parsed.ran
    /\ parsed' = parseQuestionText(paneText)
    /\ UNCHANGED paneText
    /\ UNCHANGED <<kingVars, mu, events, tmuxVars, configPresent, pc, op, ret, trace,
                   polls, curEx, nStarts, goVars, limit, answerVars, usageVars,
                   protoVars, missionVars, recordVars>>

(* ---------------- waitForResponse ---------------- *)

\* results of fileProtocol.WaitForConversationResponse: the response text,
\* ErrProtocolTimeout, or another error
WaitOutcomes == {"response", "timeout", "error"}

\* waitForResponse reporting only the timeout, returning silently on other errors
OutcomeEvents_SilentError(o) ==
    IF o = "response" THEN <<"king_message">>
    ELSE IF o = "timeout" THEN <<"king_error">> ELSE <<>>

\* waitForResponse, lines 594-610: the events emitted for one result
OutcomeEvents(o) ==
    IF o = "response" THEN <<"king_message">> ELSE <<"king_error">>

\* waitForResponse treating a failed wait as the end of the run
StatusAfterWait_Error(o, st) == IF o = "response" THEN st ELSE KingStatusError

\* waitForResponse, lines 593-611: k.status after the wait has resolved with o
StatusAfterWait(o, st) == st

\* waitForResponse, lines 586-610: the completion wait resolves
WaitResolve(e) ==
    /\ ex[e].st = "waiting"
    /\ \E o \in WaitOutcomes :
         LET evs == OutcomeEvents(o) IN
         /\ status' = StatusAfterWait(o, status)
         /\ events' = IF evs = <<>> THEN events ELSE emitEvent(events, evs[1])
         /\ ex' = [ex EXCEPT ![e] =
                     [st |-> IF o = "response" THEN "usage" ELSE "done",
                      ev |-> @.ev \o evs]]
    /\ UNCHANGED <<limit, answerVars, usageVars, protoVars, missionVars, paneVars, recordVars>>
    /\ UNCHANGED <<stopChan, closed, crashed, lastPane, totalTokens, totalCost, mu,
                   tmuxVars, configPresent, pc, op, ret, trace, polls, curEx, nStarts,
                   mon, nextEx>>

\* core.CountTokens of the request and of the response text
CountTokens(text) == IF text = "request" THEN 1 ELSE 2

\* emitTokenUsage charging every token at the input rate
UsageCost_FlatRate(inputTokens, outputTokens) == (inputTokens + outputTokens) * RateIn

\* emitTokenUsage, line 632: newCost
UsageCost(inputTokens, outputTokens) == inputTokens * RateIn + outputTokens * RateOut

\* emitTokenUsage, lines 615-648: count, add to the totals under k.mu, token_usage
UsageAccount(e) ==
    /\ ex[e].st = "usage"
    /\ \E outOk \in BOOLEAN, inOk \in {TRUE} :
         IF ~outOk
         THEN /\ ex' = [ex EXCEPT ![e].st = "done"]
              /\ UNCHANGED <<totalTokens, totalCost, events, usage>>
         ELSE LET outputTokens == CountTokens("response")
                  inputTokens == IF inOk THEN CountTokens("request") ELSE 0
              IN /\ mu = Free
                 /\ totalTokens' = totalTokens + inputTokens + outputTokens
                 /\ totalCost' = totalCost + UsageCost(inputTokens, outputTokens)
                 /\ usage' = [usage EXCEPT ![e] =
                                [tokens |-> totalTokens', cost |-> totalCost']]
                 /\ events' = emitEvent(events, "token_usage")
                 /\ ex' = [ex EXCEPT ![e] =
                             [st |-> "usage_emit", ev |-> Append(@.ev, "token_usage")]]
    /\ UNCHANGED <<limit, answerVars, reported, protoVars, missionVars, paneVars, recordVars>>
    /\ UNCHANGED <<status, mu, stopChan, closed, crashed, lastPane, tmuxVars,
                   configPresent, pc, op, ret, trace, polls, curEx, nStarts, mon, nextEx>>

\* emitTokenUsage, lines 650-654: tokens_updated
UsageEmit(e) ==
    /\ ex[e].st = "usage_emit"
    /\ events' = emitEvent(events, "tokens_updated")
    /\ ex' = [ex EXCEPT ![e] = [st |-> "done", ev |-> Append(@.ev, "tokens_updated")]]
    /\ reported' = usage[e]
    /\ usage' = [usage EXCEPT ![e] = [tokens |-> 0, cost |-> 0]]
    /\ UNCHANGED <<limit, answerVars, protoVars, missionVars, paneVars, recordVars>>
    /\ UNCHANGED <<kingVars, mu, tmuxVars, configPresent, pc, op, ret, trace, polls,
                   curEx, nStarts, mon, nextEx>>

(* ---------------- completion protocol ---------------- *)

\* the characters of conversation.md: those of the sentinel and another one
LogChars == {"a", "-", "E"}

\* the sentinel line ---END---, shortened to two characters
Sentinel == <<"-", "E">>

\* the sentinel starts at position p of log
SentinelAt(log, p) ==
    /\ p + Len(Sentinel) - 1 <= Len(log)
    /\ SubSeq(log, p, p + Len(Sentinel) - 1) = Sentinel

\* start of the first sentinel of log after position from (0 if there is none)
FindSentinel(log, from) ==
    IF \E p \in (from + 1)..Len(log) : SentinelAt(log, p)
    THEN CHOOSE p \in (from + 1)..Len(log) :
           SentinelAt(log, p) /\ \A q \in (from + 1)..(p - 1) : ~SentinelAt(log, q)
    ELSE 0

\* a wait that leaves the stored offset in front of the sentinel it found
OffsetAfter_BeforeSentinel(p) == p - 1

\* the stored offset after a wait that found the sentinel at p: just past it
OffsetAfter(p) == p + Len(Sentinel) - 1

\* a wait that gives up and skips what the log holds at the deadline
OffsetOnTimeout_SkipToEnd(stored, log) == Len(log)

\* the stored offset after a wait that timed out: not advanced
OffsetOnTimeout(stored, log) == stored

\* results of WaitForConversationResponse
Reply(text) == [err |-> "", text |-> text]
ErrProtocolTimeout == [err |-> "timeout", text |-> <<>>]

\* the agent appends one character to conversation.md
AgentAppend ==
    /\ Len(convLog) < MaxLog
    /\ \E c \in LogChars : convLog' = Append(convLog, c)
    /\ UNCHANGED <<offset, replies>>
    /\ UNCHANGED <<kingVars, mu, events, tmuxVars, configPresent, pc, op, ret, trace,
                   polls, curEx, nStarts, goVars, limit, answerVars, usageVars,
                   missionVars, paneVars, recordVars>>

\* WaitForConversationResponse returns: the text from the stored offset to
\* the next sentinel, the offset moved past it; without a sentinel, the
\* timeout error at the deadline, the offset as it was
ProtocolWait ==
    /\ LET p == FindSentinel(convLog, offset) IN
       IF p # 0
       THEN /\ replies' = Append(replies, Reply(SubSeq(convLog, offset + 1, p - 1)))
            /\ offset' = OffsetAfter(p)
       ELSE /\ Count(replies, {ErrProtocolTimeout}) < MaxTimeouts
            /\ replies' = Append(replies, ErrProtocolTimeout)
            /\ offset' = OffsetOnTimeout(offset, convLog)
    /\ UNCHANGED convLog
    /\ UNCHANGED <<kingVars, mu, events, tmuxVars, configPresent, pc, op, ret, trace,
                   polls, curEx, nStarts, goVars, limit, answerVars, usageVars,
                   missionVars, paneVars, recordVars>>

(* ---------------- mc phase, mc gate ---------------- *)

PhaseIndex(p) == CHOOSE i \in 1..Len(phases) : phases[i] = p

\* a successor function that starts over after the final phase
getNextPhase_Wrap(current) ==
    IF current \notin PhaseNames
    THEN [err |-> TRUE, next |-> ""]
    ELSE [err |-> FALSE, next |-> phases[(PhaseIndex(current) % Len(phases)) + 1]]

\* getNextPhase: the successor, an error at the final or an unknown phase
getNextPhase(current) ==
    IF current \notin PhaseNames
    THEN [err |-> TRUE, next |-> ""]
    ELSE IF PhaseIndex(current) = Len(phases)
         THEN [err |-> TRUE, next |-> ""]
         ELSE [err |-> FALSE, next |-> phases[PhaseIndex(current) + 1]]

isValidPhase(p) == p \in PhaseNames

\* arguments given to the phase and gate commands
PhaseArgs == PhaseNames \cup {"bogus"}

\* mc phase: print the current phase
runPhaseShow ==
    /\ cli' = [cmd |-> "phase", err |-> FALSE]
    /\ UNCHANGED <<phase, gates, handoffVars, nexts, direct>>
    /\ UNCHANGED <<kingVars, mu, events, tmuxVars, configPresent, pc, op, ret, trace,
                   polls, curEx, nStarts, goVars, limit, answerVars, usageVars,
                   protoVars, paneVars, recordVars>>

\* mc phase next: move to the successor of the stored phase
runPhaseNext ==
    /\ nexts < MaxNexts
    /\ IF getNextPhase(phase).err
       THEN /\ cli' = [cmd |-> "phase next", err |-> TRUE]
            /\ UNCHANGED <<phase, nexts>>
       ELSE /\ phase' = getNextPhase(phase).next
            /\ nexts' = nexts + 1
            /\ cli' = [cmd |-> "phase next", err |-> FALSE]
    /\ UNCHANGED <<gates, handoffVars, direct>>
    /\ UNCHANGED <<kingVars, mu, events, tmuxVars, configPresent, pc, op, ret, trace,
                   polls, curEx, nStarts, goVars, limit, answerVars, usageVars,
                   protoVars, paneVars, recordVars>>

\* mc phase <name>: set the stored phase
runPhaseSet ==
    /\ \E targetPhase \in PhaseArgs :
         IF ~isValidPhase(targetPhase)
         THEN /\ cli' = [cmd |-> "phase set", err |-> TRUE]
              /\ UNCHANGED <<phase, direct>>
         ELSE /\ phase' = targetPhase
              /\ direct' = TRUE
              /\ cli' = [cmd |-> "phase set", err |-> FALSE]
    /\ UNCHANGED <<gates, handoffVars, nexts>>
    /\ UNCHANGED <<kingVars, mu, events, tmuxVars, configPresent, pc, op, ret, trace,
                   polls, curEx, nStarts, goVars, limit, answerVars, usageVars,
                   protoVars, paneVars, recordVars>>

\* mc init, part_001 lines 76-81: the criteria of the gate of each phase
Criteria ==
    [p \in PhaseNames |->
       CASE p = "idea" -> <<"Research complete", "Feasibility assessed">>
         [] p = "design" -> <<"Spec written", "API contracts defined">>
         [] p = "implement" -> <<"Code complete", "Tests pass">>
         [] p = "verify" -> <<"Review done", "Security checked">>
         [] p = "document" -> <<"README written", "Docs complete">>
         [] OTHER -> <<"Deployed", "Smoke tests pass">>]

\* runGateCheck, lines 386-400: the tasks of the phase, counted by status
TasksSummary(p) ==
    LET of == {t \in TaskIds : tasks[t] # Absent /\ taskPhase[t] = p} IN
    [total |-> Cardinality(of),
     complete |-> Cardinality({t \in of : tasks[t] = "complete"}),
     pending |-> Cardinality({t \in of : tasks[t] = "pending"}),
     blocked |-> Cardinality({t \in of : tasks[t] = "blocked"})]

\* a criterion met only when every task of the phase is counted complete
CriterionMet_AllComplete(summary) ==
    summary.total > 0 /\ summary.complete = summary.total

\* runGateCheck, line 407: met
CriterionMet(summary) ==
    summary.total > 0 /\ summary.pending = 0 /\ summary.blocked = 0

\* runGateCheck, lines 403-421: ready, every criterion of the gate is met
gateReady(p) ==
    \A c \in 1..Len(Criteria[p]) : CriterionMet(TasksSummary(p))

\* mc gate check <phase>: print the gate with ready, nothing is written
runGateCheck ==
    /\ \E p \in PhaseArgs :
         cli' = IF ~isValidPhase(p)
                THEN [cmd |-> "gate check", err |-> TRUE]
                ELSE [cmd |-> "gate check", err |-> FALSE, phase |-> p,
                      ready |-> gateReady(p)]
    /\ UNCHANGED <<phase, gates, handoffVars, nexts, direct>>
    /\ UNCHANGED <<kingVars, mu, events, tmuxVars, configPresent, pc, op, ret, trace,
                   polls, curEx, nStarts, goVars, limit, answerVars, usageVars,
                   protoVars, paneVars, recordVars>>

\* runGateApprove, lines 436-488, called with the phase p
approveGate(p) ==
    IF ~isValidPhase(p)
    THEN /\ cli' = [cmd |-> "gate approve", err |-> TRUE]
         /\ UNCHANGED <<gates, phase, direct>>
    ELSE /\ gates' = [gates EXCEPT ![p] = "approved"]
         /\ cli' = [cmd |-> "gate approve", err |-> FALSE]
         /\ IF getNextPhase(p).err
            THEN UNCHANGED <<phase, direct>>
            ELSE phase' = getNextPhase(p).next /\ direct' = TRUE

\* mc gate approve <phase>: approve the gate of the named phase and store
\* the successor of the named phase as the current phase
runGateApprove ==
    /\ \E p \in PhaseArgs : approveGate(p)
    /\ UNCHANGED <<handoffVars, nexts>>
    /\ UNCHANGED <<kingVars, mu, events, tmuxVars, configPresent, pc, op, ret, trace,
                   polls, curEx, nStarts, goVars, limit, answerVars, usageVars,
                   protoVars, paneVars, recordVars>>

(* ---------------- mc handoff ---------------- *)

\* handoff files given to mc handoff: JSON objects; the key status and the
\* keys of a finding may be missing
F1 == [type |-> "discovery", summary |-> "s1"]
HandoffFiles ==
    [task_id : TaskIds \cup {""}, worker_id : WorkerIds,
     status : {"complete", "blocked"}, findings : {<<>>, <<F1>>}]
      \cup [task_id : {"task-1"}, worker_id : {"worker-1"},
            status : {"complete", "done"},
            findings : {<<F1, [type |-> "risk"]>>, <<[summary |-> "s1"]>>}]
      \cup [task_id : {"task-1"}, worker_id : {"worker-1"},
            findings : {<<>>, <<F1>>}]
      \cup [task_id : {"task-1"}, worker_id : {"worker-1"},
            status : {"done"}, findings : {<<>>, <<F1>>}]

\* json.Unmarshal into a Finding: a missing key leaves the empty string
UnmarshalFinding(f) ==
    [type |-> IF "type" \in DOMAIN f THEN f.type ELSE "",
     summary |-> IF "summary" \in DOMAIN f THEN f.summary ELSE ""]

\* json.Unmarshal into a Handoff
Unmarshal(file) ==
    [task_id |-> file.task_id,
     worker_id |-> file.worker_id,
     status |-> IF "status" \in DOMAIN file THEN file.status ELSE "",
     findings |-> [i \in 1..Len(file.findings) |->
                     UnmarshalFinding(file.findings[i])]]

validStatuses == {"complete", "blocked", "in_progress"}

\* a validation that looks at the status only
validateHandoff_StatusOnly(h) == h.status \in validStatuses

\* validateHandoff: TRUE when the handoff is valid
validateHandoff(h) ==
    /\ h.status # ""
    /\ h.status \in validStatuses
    /\ \A i \in 1..Len(h.findings) :
         h.findings[i].type # "" /\ h.findings[i].summary # ""

\* the file name of a raw record: worker id and the time to the second
handoffFileName(h, t) == <<h.worker_id, t>>

\* os.WriteFile into handoffs/: a file of the same name is replaced
WriteFile(dir, name, data) ==
    {r \in dir : r.name # name} \cup {[name |-> name, data |-> data]}

\* mc handoff <file>
runHandoff(file) ==
    IF ~validateHandoff(Unmarshal(file))
    THEN /\ cli' = [cmd |-> "handoff", err |-> TRUE]
         /\ UNCHANGED <<handoffVars, phase, gates, nexts, direct>>
    ELSE /\ accepted < MaxHandoffs
         /\ accepted' = accepted + 1
         /\ handoffs' = WriteFile(handoffs,
                                  handoffFileName(Unmarshal(file), now), file)
         /\ findings' =
              [t \in TaskIds |->
                 IF t = Unmarshal(file).task_id
                 THEN [exists |-> TRUE,
                       list |-> findings[t].list \o Unmarshal(file).findings]
                 ELSE findings[t]]
         /\ tasks' =
              [t \in TaskIds |->
                 IF t = Unmarshal(file).task_id /\ tasks[t] # Absent
                 THEN Unmarshal(file).status
                 ELSE tasks[t]]
         /\ workers' =
              [w \in WorkerIds |->
                 IF w = Unmarshal(file).worker_id /\ workers[w] # Absent
                 THEN Unmarshal(file).status
                 ELSE workers[w]]
         /\ cli' = [cmd |-> "handoff", err |-> FALSE]
         /\ UNCHANGED <<now, taskPhase, mcProc, phase, gates, nexts, direct>>

\* one run of mc handoff
Handoff ==
    /\ \E file \in HandoffFiles : runHandoff(file)
    /\ UNCHANGED <<kingVars, mu, events, tmuxVars, configPresent, pc, op, ret, trace,
                   polls, curEx, nStarts, goVars, limit, answerVars, usageVars,
                   protoVars, paneVars, recordVars>>

\* the handoff file a worker passes to the mc handoff it starts beside
\* those of other workers: a report on a task with a finding of its own
OwnFiles(w) ==
    [task_id : TaskIds, worker_id : {w}, status : {"complete", "blocked"},
     findings : {<<[type |-> "discovery", summary |-> w]>>}]

\* the other variables of the King and of the mission, which mc handoff
\* leaves alone
HandoffFrame ==
    /\ UNCHANGED <<now, taskPhase, phase, gates, nexts, direct>>
    /\ UNCHANGED <<kingVars, mu, events, tmuxVars, configPresent, pc, op, ret, trace,
                   polls, curEx, nStarts, goVars, limit, answerVars, usageVars,
                   protoVars, paneVars, recordVars>>

\* runHandoff, lines 59-83: read the file, parse, validate, store the raw
\* record
HandoffBegin(w) ==
    /\ mcProc[w].pc = "idle"
    /\ \E file \in OwnFiles(w) :
         IF ~validateHandoff(Unmarshal(file))
         THEN /\ mcProc' = [mcProc EXCEPT ![w].pc = "done"]
              /\ cli' = [cmd |-> "handoff", err |-> TRUE]
              /\ UNCHANGED <<handoffs, accepted>>
         ELSE /\ mcProc' = [mcProc EXCEPT ![w].pc =
                              IF Unmarshal(file).task_id # ""
                              THEN "read_findings" ELSE "read_workers",
                            ![w].file = Unmarshal(file)]
              /\ handoffs' = WriteFile(handoffs,
                                       handoffFileName(Unmarshal(file), now), file)
              /\ accepted' = accepted + 1
              /\ UNCHANGED cli
    /\ UNCHANGED <<tasks, workers, findings>>
    /\ HandoffFrame

\* runHandoff, lines 89-93: read the findings file of the task, if there
HandoffReadFindings(w) ==
    /\ mcProc[w].pc = "read_findings"
    /\ mcProc' = [mcProc EXCEPT ![w].pc = "write_findings",
                                ![w].existingFindings =
                                   findings[mcProc[w].file.task_id].list]
    /\ UNCHANGED <<tasks, workers, findings, handoffs, accepted, cli>>
    /\ HandoffFrame

\* runHandoff, lines 95-101: append the own findings, write the file
HandoffWriteFindings(w) ==
    /\ mcProc[w].pc = "write_findings"
    /\ findings' = [findings EXCEPT ![mcProc[w].file.task_id] =
                      [exists |-> TRUE,
                       list |-> mcProc[w].existingFindings
                                  \o mcProc[w].file.findings]]
    /\ mcProc' = [mcProc EXCEPT ![w].pc = "read_tasks",
                                ![w].existingFindings = <<>>]
    /\ UNCHANGED <<tasks, workers, handoffs, accepted, cli>>
    /\ HandoffFrame

\* runHandoff, lines 106-108: read tasks.json
HandoffReadTasks(w) ==
    /\ mcProc[w].pc = "read_tasks"
    /\ mcProc' = [mcProc EXCEPT ![w].pc = "write_tasks", ![w].tasksState = tasks]
    /\ UNCHANGED <<tasks, workers, findings, handoffs, accepted, cli>>
    /\ HandoffFrame

\* runHandoff, lines 109-116: set the status of the task, write tasks.json
HandoffWriteTasks(w) ==
    /\ mcProc[w].pc = "write_tasks"
    /\ tasks' = [t \in TaskIds |->
                   IF t = mcProc[w].file.task_id /\ mcProc[w].tasksState[t] # Absent
                   THEN mcProc[w].file.status
                   ELSE mcProc[w].tasksState[t]]
    /\ mcProc' = [mcProc EXCEPT ![w].pc = "read_workers", ![w].tasksState = <<>>]
    /\ UNCHANGED <<workers, findings, handoffs, accepted, cli>>
    /\ HandoffFrame

\* runHandoff, lines 121-124: read workers.json
HandoffReadWorkers(w) ==
    /\ mcProc[w].pc = "read_workers"
    /\ mcProc' = [mcProc EXCEPT ![w].pc = "write_workers",
                                ![w].workersState = workers]
    /\ UNCHANGED <<tasks, workers, findings, handoffs, accepted, cli>>
    /\ HandoffFrame

\* runHandoff, lines 125-136: set the status of the worker, write
\* workers.json, report
HandoffWriteWorkers(w) ==
    /\ mcProc[w].pc = "write_workers"
    /\ workers' = [v \in WorkerIds |->
                     IF v = mcProc[w].file.worker_id
                        /\ mcProc[w].workersState[v] # Absent
                     THEN mcProc[w].file.status
                     ELSE mcProc[w].workersState[v]]
    /\ mcProc' = [mcProc EXCEPT ![w].pc = "done", ![w].workersState = <<>>]
    /\ cli' = [cmd |-> "handoff", err |-> FALSE]
    /\ UNCHANGED <<tasks, findings, handoffs, accepted>>
    /\ HandoffFrame

\* handoff files that report on a task, in each valid status
ReportFiles ==
    [task_id : TaskIds, worker_id : {"worker-1"}, status : validStatuses,
     findings : {<<>>}]

\* one run of mc handoff with a report
Report ==
    /\ \E file \in ReportFiles : runHandoff(file)
    /\ UNCHANGED <<kingVars, mu, events, tmuxVars, configPresent, pc, op, ret, trace,
                   polls, curEx, nStarts, goVars, limit, answerVars, usageVars,
                   protoVars, paneVars, recordVars>>

\* a task is added to tasks.json, in one of the phases the mission uses
EnvTask ==
    /\ \E t \in TaskIds, p \in limit.taskPhases :
         /\ tasks[t] = Absent
         /\ tasks' = [tasks EXCEPT ![t] = "pending"]
         /\ taskPhase' = [taskPhase EXCEPT ![t] = p]
    /\ UNCHANGED <<workers, handoffs, findings, now, accepted, mcProc, phase, gates,
                   cli, nexts, direct>>
    /\ UNCHANGED <<kingVars, mu, events, tmuxVars, configPresent, pc, op, ret, trace,
                   polls, curEx, nStarts, goVars, limit, answerVars, usageVars,
                   protoVars, paneVars, recordVars>>

\* a worker is added to workers.json
EnvWorker ==
    /\ \E w \in WorkerIds :
         workers[w] = Absent /\ workers' = [workers EXCEPT ![w] = "running"]
    /\ UNCHANGED <<tasks, taskPhase, handoffs, findings, now, accepted, mcProc, phase,
                   gates, cli, nexts, direct>>
    /\ UNCHANGED <<kingVars, mu, events, tmuxVars, configPresent, pc, op, ret, trace,
                   polls, curEx, nStarts, goVars, limit, answerVars, usageVars,
                   protoVars, paneVars, recordVars>>

\* a second passes
Tick ==
    /\ now < MaxClock
    /\ now' = now + 1
    /\ UNCHANGED <<tasks, taskPhase, workers, handoffs, findings, accepted, mcProc,
                   phase, gates, cli, nexts, direct>>
    /\ UNCHANGED <<kingVars, mu, events, tmuxVars, configPresent, pc, op, ret, trace,
                   polls, curEx, nStarts, goVars, limit, answerVars, usageVars,
                   protoVars, paneVars, recordVars>>

(* ---------------- monitorTokens ---------------- *)

\* monitorTokens, lines 307-311: look for the mc-protocol binary
MonitorInit(g) ==
    /\ mon[g].st = "spawned"
    /\ \E found \in BOOLEAN :
         mon' = [mon EXCEPT ![g].st = IF found THEN "loop" ELSE "exit"]
    /\ UNCHANGED <<limit, answerVars, usageVars, protoVars, missionVars, paneVars, recordVars>>
    /\ UNCHANGED <<kingVars, mu, events, tmuxVars, configPresent, pc, op, ret, trace,
                   polls, curEx, nStarts, ex, nextEx>>

\* a loop that waits on the channel its own Start made
StopSignalled_OwnChannel(g) == g \in closed

\* monitorTokens, line 320: the select reads k.stopChan anew in each
\* iteration, and that channel is closed
StopSignalled(g) == stopChan \in closed

\* monitorTokens, lines 320-321: the stop channel read from k.stopChan is closed
MonitorStop(g) ==
    /\ mon[g].st = "loop"
    /\ StopSignalled(g)
    /\ mon' = [mon EXCEPT ![g] = [st |-> "exit", last |-> 0]]
    /\ UNCHANGED <<limit, answerVars, usageVars, protoVars, missionVars, paneVars, recordVars>>
    /\ UNCHANGED <<kingVars, mu, events, tmuxVars, configPresent, pc, op, ret, trace,
                   polls, curEx, nStarts, ex, nextEx>>

\* the cost estimate mc-protocol count-tokens reports with a total of n tokens
ExtCost(n) == n * RateOut

\* what a poll gives: cmd.Output fails (line 326), its output does not parse
\* (line 336), or it parses and carries total_tokens
PollOutcomes ==
    {[err |-> e, total |-> 0] : e \in {"failed", "garbled"}}
    \cup {[err |-> "none", total |-> n] : n \in 0..MaxExt}

\* monitorTokens emitting on every parsed poll
TotalDiffers_Always(total, lastTokens) == TRUE

\* monitorTokens, line 342: the parsed total is not the one kept in lastTokens
TotalDiffers(total, lastTokens) == total # lastTokens

\* one more entry in the record of polls, while the record has room
Polled(entry) == IF Len(polled) < limit.ticks THEN Append(polled, entry) ELSE polled

\* monitorTokens, lines 322-358: one tick: poll, parse, and on a changed
\* total store it under k.mu and emit tokens_updated
MonitorTick(g) ==
    /\ mon[g].st = "loop"
    /\ \E out \in PollOutcomes :
         LET changed == out.err = "none" /\ TotalDiffers(out.total, mon[g].last) IN
         /\ IF changed
            THEN /\ mu = Free
                 /\ mon' = [mon EXCEPT ![g].last = out.total]
                 /\ totalTokens' = out.total
                 /\ totalCost' = ExtCost(out.total)
                 /\ events' = emitEvent(events, "tokens_updated")
                 /\ reported' = [tokens |-> out.total, cost |-> ExtCost(out.total)]
            ELSE UNCHANGED <<mon, totalTokens, totalCost, events, reported>>
         /\ polled' = Polled([loop |-> g, out |-> out, emitted |-> changed,
                              before |-> <<totalTokens, totalCost>>,
                              after |-> <<totalTokens', totalCost'>>])
    /\ UNCHANGED <<limit, answerVars, usage, protoVars, missionVars, paneVars, lifecycle, sentIn>>
    /\ UNCHANGED <<status, mu, stopChan, closed, crashed, lastPane, tmuxVars,
                   configPresent, pc, op, ret, trace, polls, curEx, nStarts, ex, nextEx>>

(* ---------------- environment ---------------- *)

\* .mission/CLAUDE.md is created (mc init) or removed
EnvConfig ==
    /\ configPresent' = ~configPresent
    /\ UNCHANGED <<limit, answerVars, usageVars, protoVars, missionVars, paneVars, recordVars>>
    /\ UNCHANGED <<kingVars, mu, events, tmuxVars, pc, op, ret, trace, polls, curEx,
                   nStarts, goVars>>

\* the session ends outside the controller (its shell exits, tmux is killed)
EnvSessionDies ==
    /\ session
    /\ killSession
    /\ UNCHANGED <<limit, answerVars, usageVars, protoVars, missionVars, paneVars, recordVars>>
    /\ UNCHANGED <<kingVars, mu, events, configPresent, pc, op, ret, trace, polls,
                   curEx, nStarts, goVars>>

\* the program in the session draws a prompt glyph
EnvPrompt ==
    /\ session
    /\ ~paneReady
    /\ paneReady' = TRUE
    /\ UNCHANGED <<limit, answerVars, usageVars, protoVars, missionVars, paneVars, recordVars>>
    /\ UNCHANGED <<kingVars, mu, events, session, configPresent, pc, op, ret,
                   trace, polls, curEx, nStarts, goVars>>

\* the program in the session draws its pane; paneReady is what the
\* readiness check gives on it
EnvDraw ==
    /\ session
    /\ \E drawn \in Snapshots :
         /\ drawn # paneText
         /\ paneText' = drawn
         /\ paneReady' = promptShown(drawn)
    /\ UNCHANGED <<limit, answerVars, usageVars, protoVars, missionVars, parsed, recordVars>>
    /\ UNCHANGED <<kingVars, mu, events, session, configPresent, pc, op, ret,
                   trace, polls, curEx, nStarts, goVars>>

\* the agent in the session redraws its pane
EnvChoice ==
    /\ session
    /\ \E pane \in Panes :
         /\ pane.selected < Len(pane.options) \/ pane.selected = 0
         /\ pane # choice
         /\ choice' = pane
    /\ UNCHANGED <<kingVars, mu, events, tmuxVars, configPresent, pc, op, ret, trace,
                   polls, curEx, nStarts, goVars, limit, ans, usageVars, protoVars, missionVars, paneVars, recordVars>>

\* the reader of Events() receives the oldest queued event
Consume ==
    /\ events # <<>>
    /\ events' = Tail(events)
    /\ UNCHANGED <<limit, answerVars, usageVars, protoVars, missionVars, paneVars, recordVars>>
    /\ UNCHANGED <<kingVars, mu, tmuxVars, configPresent, pc, op, ret, trace, polls,
                   curEx, nStarts, goVars>>

\* the caller takes the result and is free to make its next call
Return(t) ==
    /\ pc[t] = "done"
    /\ pc' = [pc EXCEPT ![t] = "idle"]
    /\ op' = [op EXCEPT ![t] = "none"]
    /\ ret' = [ret EXCEPT ![t] = "none"]
    /\ trace' = [trace EXCEPT ![t] = <<>>]
    /\ polls' = [polls EXCEPT ![t] = 0]
    /\ curEx' = [curEx EXCEPT ![t] = 0]
    /\ ans' = [ans EXCEPT ![t] = NoAnswer]
    /\ UNCHANGED <<limit, choice, usageVars, protoVars, missionVars, paneVars, recordVars>>
    /\ UNCHANGED <<kingVars, mu, events, tmuxVars, configPresent, nStarts, goVars>>

(* ---------------- specification ---------------- *)

\* A caller at "done" is at the instant of its return: the result is observed
\* and the caller leaves that position before any other step is taken.
Returning == \E t \in Callers : pc[t] = "done"

\* the process has not panicked and no caller is at the instant of its return
Ready == ~crashed /\ ~Returning

Next ==
    \/ \E t \in Callers : ~crashed /\ Return(t)
    \/ \E t \in Callers : Ready /\ StartCheck(t)
    \/ \E t \in Callers : Ready /\ StartCreateSession(t)
    \/ \E t \in Callers : Ready /\ StartLaunch(t)
    \/ \E t \in Callers : Ready /\ StartPoll(t)
    \/ \E t \in Callers : Ready /\ StartRun(t)
    \/ \E t \in Callers : Ready /\ StartAnnounce(t)
    \/ \E t \in Callers : Ready /\ StopCheck(t)
    \/ \E t \in Callers : Ready /\ StopInterrupt(t)
    \/ \E t \in Callers : Ready /\ StopKill(t)
    \/ \E t \in Callers : Ready /\ StopAnnounce(t)
    \/ \E t \in Callers : Ready /\ SendCheck(t)
    \/ \E t \in Callers : Ready /\ SendEmitUser(t)
    \/ \E t \in Callers : Ready /\ SendText(t)
    \/ \E t \in Callers : Ready /\ SendEscape(t)
    \/ \E t \in Callers : Ready /\ SendEnter(t)
    \/ \E t \in Callers : Ready /\ SendSpawn(t)
    \/ \E t \in Callers : Ready /\ SendReturn(t)
    \/ \E e \in ExIds : Ready /\ WaitResolve(e)
    \/ \E e \in ExIds : Ready /\ UsageAccount(e)
    \/ \E e \in ExIds : Ready /\ UsageEmit(e)
    \/ \E g \in MonIds : Ready /\ MonitorInit(g)
    \/ \E g \in MonIds : Ready /\ MonitorStop(g)
    \/ \E g \in MonIds : Ready /\ MonitorTick(g)
    \/ Ready /\ EnvConfig
    \/ Ready /\ EnvPrompt
    \/ Ready /\ EnvSessionDies
    \/ Ready /\ Consume

Spec == Init /\ [][Next]_vars

SeqSpec == SeqInit /\ [][Next]_vars

\* one client over two runs; the run of each exchange is recorded
RunsInit ==
    InitWith([starts |-> MaxStarts, sends |-> MaxSends, cap |-> EventCap, ticks |-> 0,
              taskPhases |-> {phases[1]}, runs |-> TRUE], {"c1"}, {FALSE})

RunsSpec == RunsInit /\ [][Next]_vars

\* the clients start and stop the King and answer its selection prompts
AnswerNext ==
    \/ \E t \in Callers : ~crashed /\ Return(t)
    \/ \E t \in Callers : Ready /\ StartCheck(t)
    \/ \E t \in Callers : Ready /\ StartCreateSession(t)
    \/ \E t \in Callers : Ready /\ StartLaunch(t)
    \/ \E t \in Callers : Ready /\ StartPoll(t)
    \/ \E t \in Callers : Ready /\ StartRun(t)
    \/ \E t \in Callers : Ready /\ StartAnnounce(t)
    \/ \E t \in Callers : Ready /\ StopCheck(t)
    \/ \E t \in Callers : Ready /\ StopInterrupt(t)
    \/ \E t \in Callers : Ready /\ StopKill(t)
    \/ \E t \in Callers : Ready /\ StopAnnounce(t)
    \/ \E t \in Callers : Ready /\ AnswerCheck(t)
    \/ \E t \in Callers : Ready /\ AnswerCapture(t)
    \/ \E t \in Callers : Ready /\ AnswerMove(t)
    \/ \E t \in Callers : Ready /\ AnswerConfirm(t)
    \/ \E t \in Callers : Ready /\ AnswerEmit(t)
    \/ Ready /\ EnvPrompt
    \/ Ready /\ EnvSessionDies
    \/ Ready /\ EnvChoice
    \/ Ready /\ Consume

\* one Start, the second client answers while the first starts and stops
AnswerInit ==
    /\ InitWith([starts |-> MaxStarts - 1, sends |-> 0, cap |-> EventCap, ticks |-> 0,
              taskPhases |-> {phases[1]}, runs |-> FALSE], Callers,
                {FALSE})
    /\ configPresent

AnswerSpec == AnswerInit /\ [][AnswerNext]_vars

\* the agent writes the conversation log, the file protocol reads it
ProtocolNext ==
    \/ AgentAppend
    \/ ProtocolWait

ProtocolInit ==
    /\ InitWith([starts |-> 0, sends |-> 0, cap |-> EventCap, ticks |-> 0,
              taskPhases |-> {phases[1]}, runs |-> FALSE], {}, {FALSE})
    /\ configPresent

ProtocolSpec == ProtocolInit /\ [][ProtocolNext]_vars

\* Start and Stop of one King over the conversation log: the agent in the
\* session writes conversation.md, the waits of the exchanges read it through
\* the one FileProtocol made by NewKing
RestartNext ==
    \/ \E t \in Callers : ~crashed /\ Return(t)
    \/ \E t \in Callers : Ready /\ StartCheck(t)
    \/ \E t \in Callers : Ready /\ StartCreateSession(t)
    \/ \E t \in Callers : Ready /\ StartLaunch(t)
    \/ \E t \in Callers : Ready /\ StartPoll(t)
    \/ \E t \in Callers : Ready /\ StartRun(t)
    \/ \E t \in Callers : Ready /\ StartAnnounce(t)
    \/ \E t \in Callers : Ready /\ StopCheck(t)
    \/ \E t \in Callers : Ready /\ StopInterrupt(t)
    \/ \E t \in Callers : Ready /\ StopKill(t)
    \/ \E t \in Callers : Ready /\ StopAnnounce(t)
    \/ Ready /\ EnvPrompt
    \/ Ready /\ session /\ paneReady /\ AgentAppend
    \/ Ready /\ status = KingStatusRunning /\ ProtocolWait

\* one client starts and stops the King twice
RestartInit ==
    /\ InitWith([starts |-> MaxStarts, sends |-> 0, cap |-> EventCap, ticks |-> 0,
              taskPhases |-> {phases[1]}, runs |-> FALSE], {"c1"},
                {FALSE})
    /\ configPresent

RestartSpec == RestartInit /\ [][RestartNext]_vars

\* the phase and gate commands of mc on a mission made by mc init
PhaseNext ==
    \/ runPhaseShow
    \/ runPhaseNext
    \/ runPhaseSet
    \/ runGateCheck
    \/ runGateApprove

\* the mission directory as mc init leaves it
MissionInit ==
    /\ InitWith([starts |-> 0, sends |-> 0, cap |-> EventCap, ticks |-> 0,
              taskPhases |-> {phases[1]}, runs |-> FALSE], {}, {FALSE})
    /\ configPresent

PhaseSpec == MissionInit /\ [][PhaseNext]_vars

\* workers handing off on a mission made by mc init
HandoffNext ==
    \/ Handoff
    \/ EnvTask
    \/ EnvWorker
    \/ Tick

HandoffSpec == MissionInit /\ [][HandoffNext]_vars

\* no worker has started an mc handoff
NoneStarted == \A w \in WorkerIds : mcProc[w].pc = "idle"

\* tasks and workers are registered, then each worker runs one mc handoff,
\* the processes interleaving at their file reads and writes
ConcurrentNext ==
    \/ NoneStarted /\ EnvTask
    \/ NoneStarted /\ EnvWorker
    \/ \E w \in WorkerIds : HandoffBegin(w)
    \/ \E w \in WorkerIds : HandoffReadFindings(w)
    \/ \E w \in WorkerIds : HandoffWriteFindings(w)
    \/ \E w \in WorkerIds : HandoffReadTasks(w)
    \/ \E w \in WorkerIds : HandoffWriteTasks(w)
    \/ \E w \in WorkerIds : HandoffReadWorkers(w)
    \/ \E w \in WorkerIds : HandoffWriteWorkers(w)

ConcurrentSpec == MissionInit /\ [][ConcurrentNext]_vars

\* tasks of two phases are created, workers report on them, gates are checked
GateNext ==
    \/ EnvTask
    \/ Report
    \/ runGateCheck

GateInit ==
    /\ InitWith([starts |-> 0, sends |-> 0, cap |-> EventCap, ticks |-> 0,
                 taskPhases |-> {phases[1], phases[2]}, runs |-> FALSE], {}, {FALSE})
    /\ configPresent

GateSpec == GateInit /\ [][GateNext]_vars

\* tasks of two phases are created, workers report on them, gates are approved
ApproveNext ==
    \/ EnvTask
    \/ Report
    \/ runGateApprove

ApproveSpec == GateInit /\ [][ApproveNext]_vars

\* parseQuestion applied to every pane of up to MaxLines lines
ParseNext == ParseQuestion

ParseInit ==
    /\ InitOn([starts |-> 0, sends |-> 0, cap |-> EventCap, ticks |-> 0,
              taskPhases |-> {phases[1]}, runs |-> FALSE], {}, {FALSE}, PaneTexts)
    /\ configPresent

ParseSpec == ParseInit /\ [][ParseNext]_vars

\* one client starting the King while the program in the session draws
ReadyNext ==
    \/ \E t \in Callers : ~crashed /\ Return(t)
    \/ \E t \in Callers : Ready /\ StartCheck(t)
    \/ \E t \in Callers : Ready /\ StartCreateSession(t)
    \/ \E t \in Callers : Ready /\ StartLaunch(t)
    \/ \E t \in Callers : Ready /\ StartPoll(t)
    \/ \E t \in Callers : Ready /\ StartRun(t)
    \/ \E t \in Callers : Ready /\ StartAnnounce(t)
    \/ Ready /\ EnvDraw
    \/ Ready /\ EnvSessionDies

ReadySpec == RestartInit /\ [][ReadyNext]_vars

\* one client starts and stops the King; the monitoring loops poll, and their
\* first polls are recorded
MonitorNext ==
    \/ \E t \in Callers : ~crashed /\ Return(t)
    \/ \E t \in Callers : Ready /\ StartCheck(t)
    \/ \E t \in Callers : Ready /\ StartCreateSession(t)
    \/ \E t \in Callers : Ready /\ StartLaunch(t)
    \/ \E t \in Callers : Ready /\ StartPoll(t)
    \/ \E t \in Callers : Ready /\ StartRun(t)
    \/ \E t \in Callers : Ready /\ StartAnnounce(t)
    \/ \E t \in Callers : Ready /\ StopCheck(t)
    \/ \E t \in Callers : Ready /\ StopInterrupt(t)
    \/ \E t \in Callers : Ready /\ StopKill(t)
    \/ \E t \in Callers : Ready /\ StopAnnounce(t)
    \/ \E g \in MonIds : Ready /\ MonitorInit(g)
    \/ \E g \in MonIds : Ready /\ MonitorStop(g)
    \/ \E g \in MonIds : Ready /\ MonitorTick(g)
    \/ Ready /\ EnvPrompt

MonitorSpecInit ==
    /\ InitWith([starts |-> MaxStarts, sends |-> 0, cap |-> EventCap, ticks |-> MaxTicks,
              taskPhases |-> {phases[1]}, runs |-> FALSE],
                {"c1"}, {FALSE})
    /\ configPresent

MonitorSpec == MonitorSpecInit /\ [][MonitorNext]_vars

\* A spawned monitorTokens goroutine gets to run, and a loop whose select
\* finds the channel it reads from k.stopChan closed returns (lines 319-321).
\* A Start() or Stop() that has been called runs to its return: the tmux
\* commands return and waitForPrompt has its deadline. Whether and when the
\* client makes a further call is left open.
MonitorLiveSpec ==
    /\ MonitorSpec
    /\ \A g \in MonIds : WF_vars(MonitorInit(g)) /\ WF_vars(MonitorStop(g))
    /\ \A t \in Callers :
         /\ WF_vars(StartCreateSession(t)) /\ WF_vars(StartLaunch(t))
         /\ WF_vars(StartPoll(t)) /\ WF_vars(StartRun(t))
         /\ WF_vars(StartAnnounce(t))
         /\ WF_vars(StopInterrupt(t)) /\ WF_vars(StopKill(t))
         /\ WF_vars(StopAnnounce(t))
         /\ WF_vars(Return(t))

\* The completion wait is bounded by its 5 minute context deadline
\* (waitForResponse, line 587), so a started wait resolves; a call that has
\* reached its return returns.
LiveSpec ==
    /\ Spec
    /\ \A e \in ExIds : WF_vars(WaitResolve(e))
    /\ \A t \in Callers : WF_vars(Return(t))

TypeOK ==
    /\ status \in KingStatuses
    /\ mu \in {Free} \cup Callers
    /\ stopChan \in 0..MaxStarts
    /\ Len(events) <= limit.cap
    /\ nStarts <= limit.starts
    /\ nextEx <= limit.sends

(* ---------------- properties ---------------- *)

\* everything but the caller-local bookkeeping of a call
programVars == <<kingVars, mu, events, tmuxVars, goVars, configPresent>>

\* caller t enters operation o in this step
Calls(t, o) == pc[t] = "idle" /\ op'[t] = o

\* caller t is at the instant of its return from operation o with result r
Returned(t, o, r) == pc[t] = "done" /\ op[t] = o /\ ret[t] = r

\* position of the first occurrence of x in sequence q (0 if absent)
IndexOf(q, x) ==
    IF \E i \in 1..Len(q) : q[i] = x
    THEN CHOOSE i \in 1..Len(q) : q[i] = x /\ \A j \in 1..(i - 1) : q[j] # x
    ELSE 0

\* C1: Start() called while status is Running returns an error and changes
\* nothing: status, session, totals, stop channel, monitoring loops and the
\* event queue are as before, and the call has performed no effect.
C1_StartWhileRunning ==
    [][\A t \in Callers :
         (Calls(t, "Start") /\ status = KingStatusRunning)
           => /\ pc'[t] = "done"
              /\ ret'[t] = "err"
              /\ trace'[t] = <<>>
              /\ UNCHANGED programVars]_vars

C1_Witness ==
    \E t \in Callers :
      /\ Returned(t, "Start", "err")
      /\ status = KingStatusRunning
      /\ session
      /\ \E g \in MonIds : mon[g].st = "loop"

\* C2: status follows Stopped -> Starting -> Running -> Stopped, with Error
\* entered from a failed Start: a Start() that finds the configuration goes
\* from Stopped or Error to Starting; status becomes Running only from
\* Starting, as the step of a Start() call, and a Start() that returns
\* success has made that step; status becomes Starting only from Stopped or
\* Error; Running is left only for Stopped.
C2_StatusMachine ==
    [][/\ (status' = KingStatusRunning /\ status # KingStatusRunning)
            => /\ status = KingStatusStarting
               /\ \E t \in Callers : op[t] = "Start" /\ pc[t] = "start_run"
       /\ (status' = KingStatusStarting /\ status # KingStatusStarting)
            => /\ status \in {KingStatusStopped, KingStatusError}
               /\ \E t \in Callers : Calls(t, "Start")
       /\ \A t \in Callers :
            (Calls(t, "Start") /\ status # KingStatusRunning /\ configPresent)
              => status' = KingStatusStarting
       /\ \A t \in Callers :
            (op[t] = "Start" /\ ret[t] = "none" /\ ret'[t] = "ok")
              => /\ status' = KingStatusRunning
                 /\ "king_started" \in {trace[t][i] : i \in 1..Len(trace[t])}
       /\ (status = KingStatusRunning /\ status' # KingStatusRunning)
            => status' = KingStatusStopped
      ]_vars

C2_Witness ==
    /\ status = KingStatusRunning
    /\ nStarts = 2
    /\ \E t \in Callers : Returned(t, "Start", "ok")

\* C3: a Start() that reaches the configuration check (status is not Running)
\* with .mission/CLAUDE.md absent returns an error and leaves status Error;
\* it creates no session, starts no monitoring loop and emits no event.
C3_ConfigMissing ==
    [][\A t \in Callers :
         (Calls(t, "Start") /\ status # KingStatusRunning /\ ~configPresent)
           => /\ pc'[t] = "done"
              /\ ret'[t] = "err"
              /\ trace'[t] = <<>>
              /\ status' = KingStatusError
              /\ UNCHANGED <<session, paneReady, mon, events, stopChan, closed,
                             crashed, totalTokens, totalCost, mu, ex>>]_vars

C3_Witness ==
    \E t \in Callers :
      /\ Returned(t, "Start", "err")
      /\ ~configPresent
      /\ status = KingStatusError
      /\ trace[t] = <<>>
      /\ stopChan \in closed

\* C4: when readiness is not observed within the timeout, Start() destroys
\* the session it created, sets status Error and returns an error; it has
\* emitted neither king_started nor agent_spawned, and at its return no
\* session exists.
C4_ReadinessTimeout ==
    [][\A t \in Callers :
         (pc[t] = "start_wait" /\ pc'[t] = "done")
           => /\ polls[t] >= MaxPolls
              /\ ret'[t] = "err"
              /\ status' = KingStatusError
              /\ ~session'
              /\ trace[t][Len(trace[t])] = "key:claude"
              /\ trace'[t] = Append(trace[t], "kill")
              /\ Count(trace'[t], {"king_started", "agent_spawned", "go:monitorTokens"}) = 0
              /\ UNCHANGED <<events, mon>>]_vars

C4_Witness ==
    \E t \in Callers :
      /\ Returned(t, "Start", "err")
      /\ polls[t] >= MaxPolls
      /\ status = KingStatusError
      /\ ~session
      /\ trace[t][Len(trace[t])] = "kill"

\* C5: at the return of a successful Start() status is Running, the token and
\* cost totals are zero, the monitoring loop of this run has been started, and
\* the call has emitted king_started and then agent_spawned, once each.
C5_StartSuccess ==
    \A t \in Callers :
      Returned(t, "Start", "ok")
        => /\ status = KingStatusRunning
           /\ totalTokens = 0
           /\ totalCost = 0
           /\ mon[stopChan].st = "spawned"
           /\ Count(trace[t], {"king_started"}) = 1
           /\ Count(trace[t], {"agent_spawned"}) = 1
           /\ Count(trace[t], {"go:monitorTokens"}) = 1
           /\ IndexOf(trace[t], "king_started") < IndexOf(trace[t], "agent_spawned")

C5_Witness ==
    \E t \in Callers :
      /\ Returned(t, "Start", "ok")
      /\ nStarts = 2
      /\ \E e \in ExIds : "tokens_updated" \in {ex[e].ev[i] : i \in 1..Len(ex[e].ev)}

\* C6: Stop() called when status is not Running returns an error and has no
\* effect, and no sequence or interleaving of Start() and Stop() calls closes
\* a stop channel twice: a second Stop() returns an error, the process does
\* not panic.
C6_StopNotRunning ==
    /\ [](~crashed)
    /\ [][\A t \in Callers :
            (Calls(t, "Stop") /\ status # KingStatusRunning)
              => /\ pc'[t] = "done"
                 /\ ret'[t] = "err"
                 /\ trace'[t] = <<>>
                 /\ UNCHANGED programVars]_vars
    /\ [][\A t \in Callers :
            (Calls(t, "Stop") /\ status = KingStatusRunning)
              => stopChan \notin closed /\ closed' = closed \cup {stopChan}]_vars

C6_Witness ==
    \E t \in Callers :
      /\ Returned(t, "Stop", "err")
      /\ status = KingStatusStopped
      /\ stopChan \in closed
      /\ \E u \in Callers \ {t} : pc[u] # "idle"

\* C7: at the return of a Stop() accepted in status Running the call has
\* closed the stop channel, sent the interrupt key, destroyed the session and
\* emitted king_stopped and then agent_stopped, in this order; status is
\* Stopped, no session exists, and the stop channel of the run is closed.
C7_StopAccepted ==
    \A t \in Callers :
      Returned(t, "Stop", "ok")
        => /\ trace[t] = <<"close", "key:C-c", "kill", "king_stopped", "agent_stopped">>
           /\ status = KingStatusStopped
           /\ ~session
           /\ lastPane = ""
           /\ stopChan \in closed

C7_Witness ==
    \E t \in Callers :
      /\ Returned(t, "Stop", "ok")
      /\ \E g \in MonIds : mon[g].st = "loop"
      /\ \E e \in ExIds : ex[e].st = "waiting"

\* C8: SendMessage() called when status is not Running returns an error; it
\* injects no keystroke, emits no event (no king_user_message either) and
\* starts no completion wait.
C8_SendNotRunning ==
    [][\A t \in Callers :
         (Calls(t, "SendMessage") /\ status # KingStatusRunning)
           => /\ pc'[t] = "done"
              /\ ret'[t] = "err"
              /\ trace'[t] = <<>>
              /\ UNCHANGED programVars]_vars

C8_Witness ==
    \E t \in Callers :
      /\ Returned(t, "SendMessage", "err")
      /\ trace[t] = <<>>
      /\ status # KingStatusRunning
      /\ nextEx = 0

\* C9: within each exchange king_user_message is emitted before any
\* king_message or king_error of that exchange, also when the injection of
\* the text fails.
C9_ExchangeOrder ==
    \A e \in ExIds :
      /\ ex[e].ev # <<>> => ex[e].ev[1] = "king_user_message"
      /\ Count(ex[e].ev, {"king_user_message"}) <= 1
      /\ \A t \in Callers :
           (curEx[t] = e /\ Returned(t, "SendMessage", "err"))
             => ex[e].ev = <<"king_user_message", "king_error">>

C9_Witness ==
    \E e \in ExIds, t \in Callers :
      /\ curEx[t] = e
      /\ Returned(t, "SendMessage", "err")
      /\ ex[e].ev = <<"king_user_message", "king_error">>

\* number of outcome events (king_message, king_error) emitted for exchange e
Outcomes(e) == Count(ex[e].ev, {"king_message", "king_error"})

\* C10: every SendMessage() that returns success is followed by exactly one
\* outcome of its exchange, one king_message or one king_error, never both
\* and never neither; the outcome is queued when the event channel has room;
\* SendMessage returns without waiting for it.
C10_ExactlyOneOutcome ==
    /\ [](\A e \in ExIds :
            /\ ex[e].st \in {"sending", "waiting"} => Outcomes(e) = 0
            /\ ex[e].st \in {"usage", "usage_emit", "done"} => Outcomes(e) = 1)
    /\ [][\A e \in ExIds :
            /\ Outcomes(e) = 1 => Outcomes(e)' = 1
            /\ (ex[e].st = "waiting" /\ ex'[e].st # "waiting" /\ Len(events) < EventCap)
                 => /\ events' = Append(events, ex'[e].ev[Len(ex'[e].ev)])
                    /\ ex'[e].ev[Len(ex'[e].ev)] \in {"king_message", "king_error"}]_vars
    /\ [](\A t \in Callers : pc[t] = "send_return" => ENABLED SendReturn(t))
    /\ \A e \in ExIds : (ex[e].st = "waiting") ~> (Outcomes(e) = 1)

C10_Witness ==
    \E t \in Callers :
      /\ Returned(t, "SendMessage", "ok")
      /\ ex[curEx[t]].st = "waiting"
      /\ Outcomes(curEx[t]) = 0

\* the last event emitted for exchange e ("" if none)
LastEvent(e) == IF ex[e].ev = <<>> THEN "" ELSE ex[e].ev[Len(ex[e].ev)]

\* C11: a completion wait that ends in a timeout or another failure emits
\* king_error and changes nothing else: status, session, totals and stop
\* channel are as before, so a status of Running is still Running; and a
\* SendMessage() called while status is Running is accepted, also after an
\* exchange has failed.
C11_TimeoutKeepsStatus ==
    /\ [][\A e \in ExIds :
            (ex[e].st = "waiting" /\ ex'[e].st = "done")
              => /\ ex'[e].ev = Append(ex[e].ev, "king_error")
                 /\ status' = status
                 /\ UNCHANGED <<stopChan, closed, crashed, lastPane, totalTokens,
                                totalCost, mu, tmuxVars, mon, pc>>]_vars
    /\ [][\A t \in Callers :
            (Calls(t, "SendMessage") /\ status = KingStatusRunning)
              => /\ pc'[t] = SendFirstStep
                 /\ nextEx' = nextEx + 1
                 /\ ex'[nextEx'].st = "sending"]_vars

C11_Witness ==
    /\ status = KingStatusRunning
    /\ ex[1].st = "done"
    /\ LastEvent(1) = "king_error"
    /\ ex[2].st = "waiting"
    /\ \E t \in Callers : Returned(t, "SendMessage", "ok") /\ curEx[t] = 2

\* C12: a completion wait that is in flight when Stop() is called is
\* cancelled: once Stop() has torn the session down and returned (status is
\* Stopped, the lock is free), the wait emits no event for its exchange.
\* With one client the wait of every exchange is started before Stop() is
\* called.
C12_StopCancelsWait ==
    [][\A e \in ExIds :
         (ex[e].st = "waiting" /\ status = KingStatusStopped /\ mu = Free)
           => ex'[e].ev = ex[e].ev]_vars

\* the keystrokes in the effects of caller t's current call
Keys(t) == Count(trace[t], {"key:Down", "key:Up", "key:Enter", "key:text",
                            "key:Escape", "key:C-c", "key:claude"})

\* C13: AnswerQuestion(index) is rejected with an error when status is not
\* Running, when the captured pane shows no selection prompt (or no option
\* can be parsed from it), and when index is negative or at least the number
\* of parsed options; every rejected call has sent no keystroke and emitted
\* no event.
C13_AnswerRejected ==
    /\ [][\A t \in Callers :
            (Calls(t, "AnswerQuestion") /\ status # KingStatusRunning)
              => /\ pc'[t] = "done"
                 /\ ret'[t] = "err"
                 /\ trace'[t] = <<>>
                 /\ UNCHANGED <<programVars, choice>>]_vars
    /\ [][\A t \in Callers :
            (/\ pc[t] = "answer_capture"
             /\ pc'[t] # "answer_capture"
             /\ \/ ~choice.ui
                \/ choice.options = <<>>
                \/ ans[t].target < 0
                \/ ans[t].target >= Len(choice.options))
              => /\ pc'[t] = "done"
                 /\ ret'[t] = "err"
                 /\ UNCHANGED <<programVars, choice>>]_vars
    /\ [](\A t \in Callers :
            Returned(t, "AnswerQuestion", "err")
              => /\ Keys(t) = 0
                 /\ Count(trace[t], {"king_answer"}) = 0
                 /\ ans[t].event = <<>>)

C13_Witness ==
    \E t \in Callers :
      /\ Returned(t, "AnswerQuestion", "err")
      /\ status = KingStatusRunning
      /\ session
      /\ choice.ui
      /\ Len(choice.options) = 2
      /\ ans[t].target = Len(choice.options)
      /\ trace[t] = <<"capture">>

\* C14: at the return of an accepted AnswerQuestion(target) that found
\* option h highlighted, the call has captured the pane, sent exactly
\* |target - h| arrow keys, all Down when target > h and all Up when
\* target < h, then one Enter, and after that emitted one king_answer
\* carrying target and the text of option target.
C14_AnswerKeys ==
    \A t \in Callers :
      Returned(t, "AnswerQuestion", "ok")
        => LET target == ans[t].target
               h == ans[t].selected
               n == IF target > h THEN target - h ELSE h - target
           IN /\ Len(trace[t]) = n + 3
              /\ trace[t][1] = "capture"
              /\ \A i \in 2..(n + 1) :
                   trace[t][i] = IF target > h THEN "key:Down" ELSE "key:Up"
              /\ trace[t][n + 2] = "key:Enter"
              /\ trace[t][n + 3] = "king_answer"
              /\ ans[t].event = <<target, OptionTexts[target + 1]>>
              /\ target \in 0..(Len(ans[t].options) - 1)

C14_Witness ==
    \E t \in Callers :
      /\ Returned(t, "AnswerQuestion", "ok")
      /\ ans[t].target = 0
      /\ ans[t].selected = 2
      /\ trace[t] = <<"capture", "key:Up", "key:Up", "key:Enter", "king_answer">>
      /\ ans[t].event = <<0, "yes">>

\* caller t issues a session command (a keystroke or a capture) in this step
Issues(t) ==
    /\ Len(trace'[t]) > Len(trace[t])
    /\ trace'[t][Len(trace[t]) + 1] \in
         {"key:text", "key:Escape", "key:Enter", "key:Down", "key:Up", "capture"}

\* C15: whenever a session command issued by SendMessage or AnswerQuestion
\* fails (no session of the name exists), the call ends at that command and
\* returns an error; this holds for the text, Escape and Enter of
\* SendMessage and for the capture, the arrow keys and the Enter of
\* AnswerQuestion.
C15_FailurePropagated ==
    [][\A t \in Callers :
         (op'[t] \in {"SendMessage", "AnswerQuestion"} /\ Issues(t) /\ ~session)
           => pc'[t] = "done" /\ ret'[t] = "err"]_vars

\* the positions whose next step runs a tmux command or sleeps between polls
TerminalSteps ==
    {"start_create", "start_launch", "start_wait", "start_run", "stop_interrupt",
     "stop_kill", "send_keys", "send_escape", "send_enter", "answer_capture",
     "answer_move", "answer_confirm"}

\* C16: no operation holds the lock across a terminal command or a sleep: a
\* caller that is about to run one does not hold k.mu, so the read lock of a
\* concurrent Status() is granted at once, also while Start() polls
\* readiness and while Stop() tears the session down.
C16_LockOnlyInMemory ==
    \A t \in Callers : pc[t] \in TerminalSteps => mu = Free

\* C17: the event channel never holds more events than its capacity; every
\* step leaves it unchanged, appends one event at its tail while there is
\* room, or removes the event at its head (the consumer), so queued events
\* are delivered in emission order; an event emitted while the channel is
\* full is dropped and the queued events stay as they are; the emitting step
\* is enabled whatever the channel holds.
C17_EventChannel ==
    /\ [](Len(events) <= limit.cap)
    /\ [][\/ events' = events
          \/ Len(events) < limit.cap /\ Len(events') = Len(events) + 1
                /\ SubSeq(events', 1, Len(events)) = events
          \/ events # <<>> /\ events' = Tail(events)]_vars
    /\ [][\A e \in ExIds :
            Len(ex'[e].ev) = Len(ex[e].ev) + 1
              => events' = IF Len(events) < limit.cap
                           THEN Append(events, ex'[e].ev[Len(ex'[e].ev)])
                           ELSE events]_vars
    /\ [](\A e \in ExIds : ex[e].st = "usage_emit" => ENABLED UsageEmit(e))

C17_Witness ==
    /\ Len(events) = limit.cap
    /\ limit.cap = EventCap + 1
    /\ events = <<"agent_spawned", "king_user_message">>
    /\ ex[1].ev = <<"king_user_message", "king_message", "token_usage">>
    /\ ex[1].st = "usage_emit"

C19_OneSession ==
    /\ [][\A t \in Callers :
            (pc[t] = "start_create" /\ pc'[t] # "start_create" /\ session)
              => /\ IndexOf(trace'[t], "kill") = Len(trace[t]) + 1
                 /\ session' => /\ trace'[t] = trace[t] \o <<"kill", "create">>
                                /\ ~paneReady']_vars
    /\ [][(~session /\ session')
            => \E t \in Callers :
                 /\ pc[t] = "start_create"
                 /\ trace'[t] = Append(trace[t], "create")]_vars
    /\ [](\A t \in Callers :
            \/ Returned(t, "Stop", "ok")
            \/ Returned(t, "Start", "err") /\ Count(trace[t], {"create"}) = 1
            => ~session)

C19_Witness ==
    \E t \in Callers :
      /\ pc[t] = "start_launch"
      /\ trace[t] = <<"kill", "create">>
      /\ session
      /\ nStarts = 1

RECURSIVE Consumed(_)
\* the part of the log the successful waits of rs account for: each returned
\* text followed by the sentinel that ended it
Consumed(rs) ==
    IF rs = <<>> THEN <<>>
    ELSE IF Head(rs) = ErrProtocolTimeout THEN Consumed(Tail(rs))
    ELSE Head(rs).text \o Sentinel \o Consumed(Tail(rs))

\* C20: the successful completion waits partition the conversation log: the
\* returned texts, each followed by a sentinel, make up exactly the log from
\* position 0 to the stored offset, in order (nothing returned twice, nothing
\* skipped); no returned text holds a sentinel, so each wait stops at the
\* first sentinel after the previous one; the stored offset never decreases.
C20_LogPartition ==
    /\ [](/\ offset <= Len(convLog)
          /\ Consumed(replies) = SubSeq(convLog, 1, offset)
          /\ \A i \in 1..Len(replies) : FindSentinel(replies[i].text, 0) = 0)
    /\ [][offset' >= offset]_vars

C20_Witness ==
    /\ replies = <<Reply(<<"a">>), ErrProtocolTimeout, Reply(<<"E">>)>>
    /\ convLog = <<"a", "-", "E", "E", "-", "E">>
    /\ offset = 6

\* C21: a completion wait that finds no sentinel after the stored offset
\* returns the timeout error, which no successful result equals, and leaves
\* the stored offset unchanged; whenever a sentinel stands after the stored
\* offset the wait succeeds and returns the text from the stored offset to
\* that sentinel, so a wait made after a timeout returns the whole text of
\* the exchange, also the part written before the timeout.
C21_TimeoutKeepsOffset ==
    /\ [](\A i \in 1..Len(convLog), j \in 0..Len(convLog) :
            Reply(SubSeq(convLog, i, j)) # ErrProtocolTimeout)
    /\ [][replies' # replies
            => IF FindSentinel(convLog, offset) = 0
               THEN /\ replies' = Append(replies, ErrProtocolTimeout)
                    /\ offset' = offset
               ELSE /\ replies' = Append(replies,
                         Reply(SubSeq(convLog, offset + 1,
                                      FindSentinel(convLog, offset) - 1)))
                    /\ offset' > offset]_vars

C21_Witness ==
    /\ replies = <<ErrProtocolTimeout, Reply(<<"a", "a">>)>>
    /\ convLog = <<"a", "a", "-", "E">>
    /\ offset = 4

\* C22: Stop() resets the completion-protocol state: when Stop() returns,
\* nothing written to the log before the Stop is left to be read by a wait
\* of the next Start() (the stored offset stands at the end of the log, and
\* so no sentinel is pending).
C22_StopResetsProtocol ==
    \A t \in Callers :
      Returned(t, "Stop", "ok")
        => offset = Len(convLog) /\ FindSentinel(convLog, offset) = 0

\* C23: the phase proceeds from a phase to its successor only after the gate
\* of that phase has been approved: the gate of every phase earlier in the
\* sequence than the current phase is approved.
C23_GatesBeforePhase ==
    \A i \in 1..Len(phases) :
      i < PhaseIndex(phase) => gates[phases[i]] = "approved"

C25_InvalidRejected ==
    [][\A file \in HandoffFiles :
         ((\/ "status" \notin DOMAIN file
           \/ file.status \notin {"complete", "blocked", "in_progress"}
           \/ \E i \in 1..Len(file.findings) :
                 \/ "type" \notin DOMAIN file.findings[i]
                 \/ "summary" \notin DOMAIN file.findings[i])
          /\ runHandoff(file))
           => /\ cli' = [cmd |-> "handoff", err |-> TRUE]
              /\ UNCHANGED <<handoffs, findings, tasks, workers>>]_vars

C25_Witness ==
    /\ cli = [cmd |-> "handoff", err |-> TRUE]
    /\ accepted = 1
    /\ Cardinality(handoffs) = 1
    /\ findings["task-1"] = [exists |-> TRUE, list |-> <<F1>>]
    /\ tasks["task-1"] = "complete"

\* C26: each accepted handoff adds exactly one raw record to handoffs/,
\* appends its findings after those stored for its task, and sets the status
\* of the task and of the worker it names to its status; the other records,
\* findings, tasks and workers are unchanged.
C26_AcceptedHandoff ==
    [][\A file \in HandoffFiles :
         (runHandoff(file) /\ ~cli'.err)
           => /\ handoffs \subseteq handoffs'
              /\ Cardinality(handoffs') = Cardinality(handoffs) + 1
              /\ \A r \in handoffs' \ handoffs : r.data = file
              /\ \A t \in TaskIds :
                   /\ findings'[t].list =
                        IF t = file.task_id
                        THEN findings[t].list \o file.findings
                        ELSE findings[t].list
                   /\ tasks'[t] =
                        IF t = file.task_id /\ tasks[t] # Absent
                        THEN file.status
                        ELSE tasks[t]
              /\ \A w \in WorkerIds :
                   workers'[w] =
                     IF w = file.worker_id /\ workers[w] # Absent
                     THEN file.status
                     ELSE workers[w]]_vars

\* C27: for a screen with N option lines (lines of the option pattern, none
\* of them below an "Enter to select" line, where the scan ends), exactly
\* one of which, the k-th, carries the marker, parsing returns exactly N
\* options, the texts of the option lines in document order, and the index
\* of the k-th option (counted from zero).
C27_ParseOptions ==
    parsed.ran =>
      LET optLines == {i \in 1..Len(paneText) : optionRegex(paneText[i]).ok}
          marked == {i \in optLines : optionRegex(paneText[i]).marked}
          hints == {i \in 1..Len(paneText) : Contains(paneText[i], HintEnter)}
      IN  (/\ Cardinality(marked) = 1
           /\ \A h \in hints, i \in optLines : i <= h)
            => /\ parsed.found
               /\ Len(parsed.options) = Cardinality(optLines)
               /\ \A i \in optLines :
                    parsed.options[Cardinality({j \in optLines : j <= i})] =
                      optionText(optionRegex(paneText[i]).rest)
               /\ \A i \in marked :
                    parsed.selected + 1 = Cardinality({j \in optLines : j <= i})

C27_Witness ==
    /\ paneText = << <<" ", "1", ".", " ", "y">>,
                     <<Marker, " ", "2", ".", " ", "n">>,
                     <<" ", "3", ".", " ", "m", "\t", "d">>,
                     <<HintEnter>> >>
    /\ parsed = [ran |-> TRUE, found |-> TRUE,
                 options |-> << <<"y">>, <<"n">>, <<"m">> >>, selected |-> 1]

\* C28: parsing never returns a malformed prompt: for a screen without an
\* option line it returns no prompt, and a returned prompt has at least one
\* option and an index h with 0 <= h < the number of options.
C28_WellFormed ==
    parsed.ran =>
      /\ (\A i \in 1..Len(paneText) : ~optionRegex(paneText[i]).ok)
           => ~parsed.found
      /\ parsed.found
           => /\ Len(parsed.options) > 0
              /\ 0 <= parsed.selected
              /\ parsed.selected < Len(parsed.options)

C28_Witness ==
    /\ paneText = << <<Checkbox, " ", "t">>, <<" ", "1", ".", " ", "y">>,
                     <<Marker, " ", "2", ".", " ", "n">>, <<HintEnter>> >>
    /\ parsed.found
    /\ parsed.selected = 1
    /\ Len(parsed.options) = 2

\* C29: parsing stops at the navigation-hint line, for either form of the
\* hint: on a pane detected as a selection prompt the result is the one
\* obtained from the pane cut off after its first hint line, so no line
\* below the hint adds an option or sets the index.
C29_StopsAtHint ==
    (parsed.ran /\ isQuestionUIText(paneText)) =>
      \A h \in 1..Len(paneText) :
        (/\ Contains(paneText[h], HintEnter) \/ Contains(paneText[h], HintArrows)
         /\ \A i \in 1..(h - 1) :
              ~Contains(paneText[i], HintEnter) /\ ~Contains(paneText[i], HintArrows))
          => parsed = parseQuestionText(SubSeq(paneText, 1, h))

ParsedBefore(i) ==
    {j \in 1..(i - 1) : polled[j].loop = polled[i].loop /\ polled[j].out.err = "none"}

\* the largest element of a non-empty set of numbers
Latest(S) == CHOOSE j \in S : \A k \in S : k <= j

\* C31: the monitoring loop emits a usage update only for a poll whose total
\* differs from the total the loop observed last; a poll that observes the
\* same total as the poll before it emits nothing; a failed or unparsable
\* poll emits nothing and leaves the totals as they were. A step of the loop
\* that emits nothing leaves the event queue and the reported usage alone.
C31_EmitOnChange ==
    /\ [](\A i \in 1..Len(polled) :
            /\ polled[i].emitted
                 => /\ polled[i].out.err = "none"
                    /\ ParsedBefore(i) # {}
                         => polled[Latest(ParsedBefore(i))].out.total
                              # polled[i].out.total
            /\ polled[i].out.err # "none"
                 => ~polled[i].emitted /\ polled[i].after = polled[i].before)
    /\ [][(Len(polled') = Len(polled) + 1 /\ ~polled'[Len(polled')].emitted)
            => UNCHANGED <<events, reported, totalTokens, totalCost>>]_vars

C31_Witness ==
    /\ Len(polled) = 3
    /\ \A i \in 1..3 : polled[i].loop = 1
    /\ polled[1].out = [err |-> "none", total |-> 1] /\ polled[1].emitted
    /\ polled[2].out = [err |-> "none", total |-> 1] /\ ~polled[2].emitted
    /\ polled[3].out.err = "failed" /\ polled[3].after = <<1, ExtCost(1)>>

(* ---------------- lifecycle events ---------------- *)

\* C33: in the order of emission, king_started and king_stopped alternate,
\* beginning with king_started, whatever the interleaving of the Start and
\* Stop calls of the two clients.
C33_LifecycleAlternates ==
    \A i \in 1..Len(lifecycle) :
      lifecycle[i] = IF i % 2 = 1 THEN "king_started" ELSE "king_stopped"

C33_Witness ==
    /\ lifecycle = <<"king_started", "king_stopped", "king_started", "king_stopped">>
    /\ Returned("c2", "Stop", "ok")
    /\ status = KingStatusStopped

\* C34: the monitoring loop started by a Start() (it is numbered by the stop
\* channel that Start made) ends once the next Stop() has closed that
\* channel, also when a new Start() follows that Stop().
C34_LoopEndsAfterStop ==
    \A g \in MonIds :
      (g \in closed /\ mon[g].st \in {"spawned", "loop"}) ~> (mon[g].st = "exit")

\* C35: while the King stays running, the cumulative totals never decrease
\* and change only by the token count and cost of one exchange being added,
\* so that they are the sum of what the exchanges added since the Start.
C35_TotalsAreSums ==
    [][(status = KingStatusRunning /\ status' = KingStatusRunning)
         => /\ totalTokens' >= totalTokens
            /\ totalCost' >= totalCost
            /\ \/ UNCHANGED <<totalTokens, totalCost>>
               \/ \E e \in ExIds :
                    /\ ex[e].st = "usage" /\ ex'[e].st = "usage_emit"
                    /\ totalTokens' = totalTokens + CountTokens("request")
                                                  + CountTokens("response")
                    /\ totalCost' = totalCost + UsageCost(CountTokens("request"),
                                                          CountTokens("response"))]_vars

\* C36: the usage of an exchange is added to the totals only in the run the
\* exchange was sent in: once a Stop() and a successful Start() have
\* followed the send, the accounting of that exchange leaves the totals of
\* the new run alone.
C36_NoStaleUsage ==
    [][\A e \in ExIds :
         (ex[e].st = "usage" /\ sentIn[e] # stopChan)
           => UNCHANGED <<totalTokens, totalCost>>]_vars

\* the effects the step adds to those of caller t's current call
Gained(t) ==
    IF Len(trace'[t]) > Len(trace[t])
    THEN {trace'[t][i] : i \in (Len(trace[t]) + 1)..Len(trace'[t])}
    ELSE {}

\* C37: once a Stop() has emitted king_stopped, and until a later Start()
\* emits king_started, a SendMessage() or AnswerQuestion() that runs beside
\* it emits no king_user_message and no king_answer, and none of its
\* keystrokes reaches a session.
C37_NothingAfterStopped ==
    [][\A t \in Callers :
         (/\ op[t] \in {"SendMessage", "AnswerQuestion"}
          /\ lifecycle # <<>>
          /\ lifecycle[Len(lifecycle)] = "king_stopped")
           => /\ Gained(t) \cap {"king_user_message", "king_answer"} = {}
              /\ session
                   => Gained(t) \cap {"key:text", "key:Escape", "key:Enter",
                                      "key:Down", "key:Up"} = {}]_vars

(* ---------------- gates ---------------- *)

\* C32: gate check reports a phase ready only when the phase has at least one
\* task and every task of the phase is complete: with a task that is
\* pending, blocked or in_progress the phase is not reported ready.
C32_ReadyMeansComplete ==
    [][(cli'.cmd = "gate check" /\ ~cli'.err /\ UNCHANGED <<tasks, taskPhase>>)
         => (cli'.ready
               => /\ \E t \in TaskIds : tasks[t] # Absent /\ taskPhase[t] = cli'.phase
                  /\ \A t \in TaskIds :
                       (tasks[t] # Absent /\ taskPhase[t] = cli'.phase)
                         => tasks[t] = "complete")]_vars

\* C38: gate approve never moves the workflow backward: the phase after the
\* call is not earlier in the phase sequence than the phase before it, also
\* when the approved phase is not the current one.
C38_ApproveNotBackward ==
    [][\A p \in PhaseArgs :
         (approveGate(p) /\ UNCHANGED <<handoffVars, nexts>>)
           => PhaseIndex(phase') >= PhaseIndex(phase)]_vars

\* C39: gate approve marks the gate of a phase approved and advances the
\* phase only in a state where gate check of that phase reports ready.
C39_ApproveOnlyReady ==
    [][\A p \in PhaseNames :
         (approveGate(p) /\ UNCHANGED <<handoffVars, nexts>>) => gateReady(p)]_vars

(* ---------------- concurrent handoffs ---------------- *)

\* the elements of a sequence
Range(q) == {q[i] : i \in 1..Len(q)}

\* C40: when the mc handoff processes of different workers have all ended,
\* the findings file of each task holds the findings of every accepted
\* handoff for the task, the status of each registered worker is the one
\* its accepted handoff reported, and the status of each registered task is
\* one that an accepted handoff for the task reported.
C40_NothingLost ==
    (\A w \in WorkerIds : mcProc[w].pc = "done" /\ mcProc[w].file # <<>>)
      => \A w \in WorkerIds :
           /\ Range(mcProc[w].file.findings)
                 \subseteq Range(findings[mcProc[w].file.task_id].list)
           /\ workers[w] # Absent => workers[w] = mcProc[w].file.status
           /\ tasks[mcProc[w].file.task_id] # Absent
                => \E v \in WorkerIds :
                     /\ mcProc[v].file.task_id = mcProc[w].file.task_id
                     /\ tasks[mcProc[w].file.task_id] = mcProc[v].file.status

====
